---------------------------- MODULE EpochProofs -----------------------------
(* Why epoch.c frees every retired node once, why ebr_sync leaves none when *)
(* it is alone and why no reader loses a node, for every number of threads  *)
(* and nodes.                                                               *)
EXTENDS Epoch, FiniteSetTheorems, TLAPS

Labels == {"new", "pop", "pop_cas", "publish", "enter", "critical", "retire", "idle",
           "read_epoch", "refresh", "gc", "scan", "scan_critical", "scan_epoch", "collect",
           "reclaim", "push_slot", "hand_over", "exited"}

\* The slots that have been given out.
Issued == {NoSlot} \cup 0..(g_n_threads - 1)
Claimed == {t \in Threads : pc[t] \notin {"new", "pop", "pop_cas"}}

TypeOK ==
    /\ g_epoch \in Nat
    /\ g_contexts \in [Slots -> Threads \cup {NoThread}]
    /\ g_retired \in [EpochSlots -> SUBSET Nodes]
    /\ in_critical \in [Threads -> BOOLEAN] /\ local_epoch \in [Threads -> Nat]
    /\ epoch_tick \in [Threads -> Nat] /\ op_count \in [Threads -> Nat]
    /\ pending \in [Threads -> [EpochSlots -> SUBSET Nodes]]
    /\ pc \in [Threads -> Labels]
    /\ seen_epoch \in [Threads -> Nat] /\ seen_n \in [Threads -> Nat]
    /\ scan \in [Threads -> Nat] /\ ctx \in [Threads -> Threads \cup {NoThread}]
    /\ garbage \in [Threads -> SUBSET Nodes] /\ target \in [Threads -> Nat]
    /\ linked \in SUBSET Nodes /\ unlinked \in [Threads -> SUBSET Nodes]
    /\ held \in [Threads -> SUBSET Nodes]
    /\ freed \in SUBSET Nodes /\ overtaken \in SUBSET Nodes
    /\ aba \in BOOLEAN
    /\ due \in [Threads -> SUBSET Nodes] /\ alone \in [Threads -> BOOLEAN]

SlotInv ==
    /\ g_n_threads \in Nat /\ g_n_threads <= Cardinality(Claimed)
    /\ free_head \in Issued /\ free_next \in [Slots -> Issued]
    /\ slot_index \in [Threads -> Issued] /\ next_slot \in [Threads -> Issued]
    /\ \A t \in Threads : pc[t] \notin {"new", "pop", "exited"} => slot_index[t] # NoSlot

\* A thread owns its slot from the step that gives it one to the step that puts it
\* back on the stack.
Owns(t) == pc[t] \notin {"new", "pop", "pop_cas", "hand_over", "exited"}

FreeSlots == {s \in 0..(g_n_threads - 1) : \A t \in Threads : Owns(t) => slot_index[t] # s}

\* The stack of free slots is a stack, and no slot has two owners.
StackInv ==
    /\ free_head # NoSlot => free_head \in FreeSlots
    /\ \A s \in Slots : s \in FreeSlots /\ free_next[s] # NoSlot =>
          /\ free_next[s] \in FreeSlots
          /\ free_next[s] # free_head
          /\ \A r \in Slots : r \in FreeSlots /\ free_next[r] = free_next[s] => r = s
    /\ \A t, u \in Threads : Owns(t) /\ Owns(u) /\ slot_index[t] = slot_index[u] => t = u

\* The slot of a thread that is registered points to it.
Published ==
    \A t \in Threads :
        Owns(t) /\ pc[t] \notin {"publish", "push_slot"} => g_contexts[slot_index[t]] = t

Scanning(t) == pc[t] \in {"scan", "scan_critical", "scan_epoch"}

\* How far a thread is, by its place in the code.
Phase(t) ==
    /\ in_critical[t] <=> pc[t] \in {"critical", "retire"}
    /\ ~ in_critical[t] => held[t] = {}
    /\ pc[t] # "retire" => unlinked[t] = {}
    /\ pc[t] # "reclaim" => garbage[t] = {}
    /\ pc[t] \in {"new", "exited"} => \A e \in EpochSlots : pending[t][e] = {}
    /\ seen_n[t] <= g_n_threads /\ (Scanning(t) => scan[t] <= seen_n[t])
    /\ ~ Scanning(t) => scan[t] = 0
    /\ pc[t] \in {"scan_critical", "scan_epoch"} => scan[t] < seen_n[t] /\ ctx[t] \in Threads
    /\ seen_epoch[t] <= g_epoch /\ local_epoch[t] <= g_epoch
    /\ pc[t] = "collect" => seen_epoch[t] < g_epoch

PhaseInv == \A t \in Threads : Phase(t)

\* While ebr_sync is alone, the collections it has made have emptied their slots.
SyncRuns(t) ==
    /\ target[t] >= EBR_EPOCH_COUNT
    /\ \A u \in Threads \ {t} : pc[u] \in {"new", "exited"}
    /\ pc[t] \in {"critical", "idle", "read_epoch", "refresh", "gc", "scan", "scan_critical",
                  "scan_epoch", "collect", "reclaim"}
    /\ \A e \in (target[t] - EBR_EPOCH_COUNT)..(g_epoch - 1) :
          ~ (pc[t] = "collect" /\ seen_epoch[t] = e) =>
              /\ pending[t][(e - 1) % EBR_EPOCH_COUNT] = {}
              /\ g_retired[(e - 1) % EBR_EPOCH_COUNT] = {}
    /\ due[t] \cap linked = {}

SyncInv == \A t \in Threads : target[t] # 0 /\ alone[t] => SyncRuns(t)

\* t will come to look at the context of u.
Awaits(t, u) ==
    /\ scan[t] <= slot_index[u] /\ slot_index[u] < seen_n[t]
    /\ slot_index[u] = scan[t] => pc[t] = "scan" \/ ctx[t] = u

\* n is in a list of the epoch slot s.
InSlot(n, s) == n \in g_retired[s] \/ \E t \in Threads : n \in pending[t][s]

\* What a reader may have a pointer to was retired in the current epoch, or in the
\* last one too; but then the reader announces an earlier epoch, and whoever is
\* about to end the current one will see that.
Fresh(u) ==
    \A n \in held[u], s \in EpochSlots : InSlot(n, s) => s = g_epoch % EBR_EPOCH_COUNT

Old(u) ==
    /\ local_epoch[u] < g_epoch
    /\ \A n \in held[u], s \in EpochSlots : InSlot(n, s) =>
          s \in {g_epoch % EBR_EPOCH_COUNT, (g_epoch - 1) % EBR_EPOCH_COUNT}
    /\ \A t \in Threads : Scanning(t) /\ seen_epoch[t] = g_epoch => Awaits(t, u)

ReaderInv == \A u \in Threads : in_critical[u] => Fresh(u) \/ Old(u)

\* The readers that a scan has passed have no pointer to what it is to free ...
PassedInv ==
    \A t, u \in Threads :
        /\ Scanning(t) /\ seen_epoch[t] = g_epoch /\ in_critical[u] /\ ~ Awaits(t, u)
        => held[u] \cap pending[t][(g_epoch - 1) % EBR_EPOCH_COUNT] = {}

\* ... nor has anybody when it is about to.
CollectInv ==
    \A t, u \in Threads : pc[t] = "collect" => held[u] \cap pending[t][ReclaimSlot(t)] = {}

\* try_gc looks for a reader where it is.
InOwnSlot ==
    \A t \in Threads : in_critical[t] => g_contexts[slot_index[t]] = t

KeptInv == \A t \in Threads : held[t] \cap freed \subseteq overtaken

GarbageInv ==
    \A t, u \in Threads : held[u] \cap garbage[t] \subseteq overtaken

----------------------------------------------------------------------------
(* Types, slots and phases.                                                *)

LEMMA ModFacts ==
    /\ EpochSlots = {0, 1, 2} /\ EBR_EPOCH_COUNT = 3
    /\ \A g \in Nat : /\ g % 3 \in EpochSlots /\ (g - 1) % 3 \in EpochSlots
                      /\ (g + 1) % 3 \in EpochSlots
                      /\ g % 3 # (g - 1) % 3 /\ g % 3 # (g + 1) % 3
                      /\ (g - 1) % 3 # (g + 1) % 3
<1>1. EpochSlots = {0, 1, 2} /\ EBR_EPOCH_COUNT = 3
  BY DEF EpochSlots, EBR_EPOCH_COUNT
<1>2. ASSUME NEW g \in Nat
      PROVE  /\ g % 3 \in {0, 1, 2} /\ (g - 1) % 3 \in {0, 1, 2} /\ (g + 1) % 3 \in {0, 1, 2}
             /\ g % 3 # (g - 1) % 3 /\ g % 3 # (g + 1) % 3
             /\ (g - 1) % 3 # (g + 1) % 3
  OBVIOUS
<1> QED  BY <1>1, <1>2

\* What a thread's step leaves alone.
LEMMA Frame ==
    ASSUME TypeOK, NEW t \in Threads, Step(t), NEW u \in Threads, u # t
    PROVE  /\ in_critical'[u] = in_critical[u] /\ local_epoch'[u] = local_epoch[u]
           /\ pending'[u] = pending[u] /\ pc'[u] = pc[u] /\ seen_epoch'[u] = seen_epoch[u]
           /\ seen_n'[u] = seen_n[u] /\ scan'[u] = scan[u] /\ ctx'[u] = ctx[u]
           /\ garbage'[u] = garbage[u] /\ target'[u] = target[u]
           /\ unlinked'[u] = unlinked[u] /\ held'[u] = held[u]
<1> USE DEF TypeOK, regVars, countVars, scanVars, listVars, syncVars, freeVars, Goto
<1>1. CASE PopSlot(t) \/ PopSlotCAS(t) \/ Publish(t) \/ Enter(t)
  BY <1>1 DEF PopSlot, PopSlotCAS, Publish, Enter
<1>2. CASE (\E n \in Nodes : Unlink(t, n)) \/ Retire(t) \/ Exit(t) \/ ReadEpoch(t) \/ Refresh(t)
  BY <1>2 DEF Unlink, Retire, Exit, ReadEpoch, Refresh
<1>3. CASE GcBegin(t)
  BY <1>3 DEF GcBegin, GiveUp, EndScan
<1>4. CASE ScanContext(t)
  BY <1>4 DEF ScanContext, NextContext
<1>5. CASE ScanCritical(t)
  BY <1>5 DEF ScanCritical, NextContext
<1>6. CASE ScanEpoch(t)
  BY <1>6 DEF ScanEpoch, NextContext, GiveUp, EndScan
<1>7. CASE Advance(t)
  BY <1>7 DEF Advance, GiveUp, EndScan
<1>8. CASE Collect(t) \/ Reclaim(t) \/ Reclaimed(t)
  BY <1>8 DEF Collect, Reclaim, Reclaimed
<1>9. CASE Sync(t) \/ SyncReturn(t)
  BY <1>9 DEF Sync, SyncReturn, BeginSync
<1>10. CASE Unregister(t) \/ PushSlot(t) \/ HandOver(t) \/ Destroyed(t)
  BY <1>10 DEF Unregister, PushSlot, HandOver, Destroyed
<1> QED  BY <1>1, <1>2, <1>3, <1>4, <1>5, <1>6, <1>7, <1>8, <1>9, <1>10 DEF Step

LEMMA SlotBound ==
    ASSUME SlotInv
    PROVE  /\ g_n_threads \in Nat /\ g_n_threads <= EBR_MAX_THREADS
           /\ IsFiniteSet(Claimed) /\ Cardinality(Claimed) \in Nat
           /\ Issued \subseteq {NoSlot} \cup Slots
           /\ \A t \in Threads : t \notin Claimed => g_n_threads < EBR_MAX_THREADS
<1>1. IsFiniteSet(Threads) /\ Cardinality(Threads) \in Nat /\ Cardinality(Threads) <= EBR_MAX_THREADS
  BY ThreadsAssumption, FS_CardinalityType
<1>2. IsFiniteSet(Claimed) /\ Cardinality(Claimed) <= Cardinality(Threads)
  BY <1>1, FS_Subset DEF Claimed
<1>3. Cardinality(Claimed) \in Nat
  BY <1>2, FS_CardinalityType
<1>4. ASSUME NEW t \in Threads, t \notin Claimed PROVE Cardinality(Claimed) < Cardinality(Threads)
  <2>1. Claimed \subseteq Threads /\ Claimed # Threads
    BY <1>4 DEF Claimed
  <2>2. Cardinality(Claimed) # Cardinality(Threads)
    BY <2>1, <1>1, FS_Subset
  <2> QED  BY <2>2, <1>1, <1>2, <1>3
<1>5. g_n_threads \in Nat /\ g_n_threads <= Cardinality(Claimed) /\ EBR_MAX_THREADS \in Nat
  BY EpochAssumption DEF SlotInv
<1>6. Issued \subseteq {NoSlot} \cup Slots
  BY <1>1, <1>2, <1>3, <1>5 DEF Issued, Slots
<1> QED  BY <1>1, <1>2, <1>3, <1>4, <1>5, <1>6

\* The variables a collection works with.
GcType ==
    /\ seen_epoch \in [Threads -> Nat] /\ seen_n \in [Threads -> Nat]
    /\ scan \in [Threads -> Nat] /\ ctx \in [Threads -> Threads \cup {NoThread}]
    /\ pc \in [Threads -> Labels]

LEMMA GcSteps ==
    ASSUME TypeOK, NEW t \in Threads
    PROVE  /\ NextContext(t) => GcType'
           /\ GiveUp(t) => GcType'
           /\ EndScan(t) => /\ seen_n' \in [Threads -> Nat] /\ scan' \in [Threads -> Nat]
                            /\ ctx' \in [Threads -> Threads \cup {NoThread}]
           /\ \A l \in Labels : Goto(t, l) => pc' \in [Threads -> Labels]
<1>1. EndScan(t) => /\ seen_n' \in [Threads -> Nat] /\ scan' \in [Threads -> Nat]
                    /\ ctx' \in [Threads -> Threads \cup {NoThread}]
  BY DEF TypeOK, EndScan
<1>2. \A l \in Labels : Goto(t, l) => pc' \in [Threads -> Labels]
  BY DEF TypeOK, Goto
<1>3. "scan" \in Labels /\ "idle" \in Labels
  BY DEF Labels
<1>4. NextContext(t) => GcType'
  BY <1>2, <1>3 DEF TypeOK, GcType, NextContext
<1>5. GiveUp(t) => GcType'
  BY <1>1, <1>2, <1>3 DEF TypeOK, GcType, GiveUp
<1> QED  BY <1>1, <1>2, <1>4, <1>5

LEMMA TypeNext == TypeOK /\ SlotInv /\ PhaseInv /\ [Next]_vars => TypeOK'
<1> SUFFICES ASSUME TypeOK, SlotInv, PhaseInv, [Next]_vars PROVE TypeOK'
  OBVIOUS
<1> USE DEF regVars, countVars, scanVars, listVars, syncVars, freeVars, Goto, Labels
<1>1. ASSUME NEW t \in Threads, PopSlot(t) \/ PopSlotCAS(t) PROVE TypeOK'
  BY <1>1 DEF TypeOK, PopSlot, PopSlotCAS
<1>2. ASSUME NEW t \in Threads, Publish(t) PROVE TypeOK'
  BY <1>2 DEF TypeOK, Publish
<1>3. ASSUME NEW t \in Threads, Enter(t) PROVE TypeOK'
  BY <1>3 DEF TypeOK, Enter
<1>4. ASSUME NEW t \in Threads, NEW n \in Nodes, Unlink(t, n) PROVE TypeOK'
  BY <1>4 DEF TypeOK, Unlink
<1>5. ASSUME NEW t \in Threads, Retire(t) PROVE TypeOK'
  <2>1. PICK s \in EpochSlots : s = g_epoch % EBR_EPOCH_COUNT
    BY ModFacts DEF TypeOK
  <2>2. pending' = [pending EXCEPT ![t] = [pending[t] EXCEPT ![s] = pending[t][s] \cup unlinked[t]]]
    BY <1>5, <2>1 DEF Retire
  <2>3. pending' \in [Threads -> [EpochSlots -> SUBSET Nodes]]
    BY <2>2 DEF TypeOK
  <2> QED  BY <1>5, <2>3 DEF TypeOK, Retire
<1>6. ASSUME NEW t \in Threads, Exit(t) PROVE TypeOK'
  <2>1. (epoch_tick[t] + 1) % EBR_GC_THRESHOLD \in Nat
    BY EpochAssumption DEF TypeOK
  <2> QED  BY <1>6, <2>1 DEF TypeOK, Exit
<1>7. ASSUME NEW t \in Threads, ReadEpoch(t) PROVE TypeOK'
  BY <1>7 DEF TypeOK, ReadEpoch
<1>8. ASSUME NEW t \in Threads, Refresh(t) PROVE TypeOK'
  <2>1. (op_count[t] + 1) % EBR_GC_THRESHOLD \in Nat
    BY EpochAssumption DEF TypeOK
  <2> QED  BY <1>8, <2>1 DEF TypeOK, Refresh
<1>9. ASSUME NEW t \in Threads, GcBegin(t) PROVE TypeOK'
  <2>1. g_n_threads \in Nat
    BY SlotBound
  <2>2. CASE GiveUp(t)
    BY <1>9, <2>2, GcSteps DEF TypeOK, GcBegin, GcType
  <2>3. CASE /\ seen_epoch' = [seen_epoch EXCEPT ![t] = g_epoch]
             /\ seen_n' = [seen_n EXCEPT ![t] = g_n_threads]
             /\ Goto(t, "scan") /\ UNCHANGED <<scan, ctx>>
    BY <1>9, <2>1, <2>3 DEF TypeOK, GcBegin
  <2> QED  BY <1>9, <2>2, <2>3 DEF GcBegin
<1>10. ASSUME NEW t \in Threads, ScanContext(t) PROVE TypeOK'
  <2>1. scan[t] \in Slots
    BY <1>10, SlotBound, EpochAssumption DEF TypeOK, PhaseInv, Phase, ScanContext, Slots
  <2>2. CASE NextContext(t)
    BY <1>10, <2>2, GcSteps DEF TypeOK, ScanContext, GcType
  <2>3. CASE /\ ctx' = [ctx EXCEPT ![t] = g_contexts[scan[t]]]
             /\ Goto(t, "scan_critical") /\ UNCHANGED <<seen_epoch, seen_n, scan>>
    BY <1>10, <2>1, <2>3 DEF TypeOK, ScanContext
  <2> QED  BY <1>10, <2>2, <2>3 DEF ScanContext
<1>11. ASSUME NEW t \in Threads, ScanCritical(t) PROVE TypeOK'
  <2>1. CASE NextContext(t)
    BY <1>11, <2>1, GcSteps DEF TypeOK, ScanCritical, GcType
  <2>2. CASE Goto(t, "scan_epoch") /\ UNCHANGED <<seen_epoch, scanVars>>
    BY <1>11, <2>2 DEF TypeOK, ScanCritical
  <2> QED  BY <1>11, <2>1, <2>2 DEF ScanCritical
<1>12. ASSUME NEW t \in Threads, ScanEpoch(t) PROVE TypeOK'
  <2>1. GcType'
    BY <1>12, GcSteps DEF ScanEpoch
  <2> QED  BY <1>12, <2>1 DEF TypeOK, ScanEpoch, GcType
<1>13. ASSUME NEW t \in Threads, Advance(t) PROVE TypeOK'
  <2>1. CASE GiveUp(t) /\ UNCHANGED g_epoch
    BY <1>13, <2>1, GcSteps DEF TypeOK, Advance, GcType
  <2>2. CASE /\ g_epoch' = g_epoch + 1
             /\ EndScan(t) /\ Goto(t, "collect") /\ UNCHANGED seen_epoch
    <3>1. /\ seen_n' \in [Threads -> Nat] /\ scan' \in [Threads -> Nat]
          /\ ctx' \in [Threads -> Threads \cup {NoThread}]
      BY <2>2, GcSteps
    <3>2. pc' \in [Threads -> Labels] /\ g_epoch' \in Nat
      BY <2>2 DEF TypeOK
    <3> QED  BY <1>13, <2>2, <3>1, <3>2 DEF TypeOK, Advance
  <2> QED  BY <1>13, <2>1, <2>2 DEF Advance
<1>14. ASSUME NEW t \in Threads, Collect(t) PROVE TypeOK'
  <2>1. PICK s \in EpochSlots : s = ReclaimSlot(t)
    BY ModFacts DEF TypeOK, ReclaimSlot
  <2>2. pending' = [pending EXCEPT ![t] = [pending[t] EXCEPT ![s] = {}]]
    BY <1>14, <2>1 DEF Collect
  <2>3. pending' \in [Threads -> [EpochSlots -> SUBSET Nodes]]
    BY <2>2 DEF TypeOK
  <2> QED  BY <1>14, <2>1, <2>3 DEF TypeOK, Collect
<1>15. ASSUME NEW t \in Threads, Reclaim(t) \/ Reclaimed(t) PROVE TypeOK'
  <2>1. CASE Reclaim(t)
    <3>1. PICK n \in garbage[t] : freed' = freed \cup {n} /\ garbage' = [garbage EXCEPT ![t] = garbage[t] \ {n}]
      BY <2>1 DEF Reclaim
    <3>2. n \in Nodes
      BY <3>1 DEF TypeOK
    <3>3. freed' \in SUBSET Nodes /\ garbage' \in [Threads -> SUBSET Nodes]
      BY <3>1, <3>2 DEF TypeOK
    <3> QED  BY <2>1, <3>3 DEF TypeOK, Reclaim
  <2>2. CASE Reclaimed(t)
    BY <2>2 DEF TypeOK, Reclaimed
  <2> QED  BY <1>15, <2>1, <2>2
<1>16. ASSUME NEW t \in Threads, Sync(t) \/ SyncReturn(t) PROVE TypeOK'
  <2>1. g_epoch + EBR_EPOCH_COUNT \in Nat
    BY ModFacts DEF TypeOK
  <2>2. CASE Sync(t)
    BY <2>1, <2>2 DEF TypeOK, Sync, BeginSync, Retired
  <2>3. CASE SyncReturn(t)
    BY <2>3 DEF TypeOK, SyncReturn
  <2> QED  BY <1>16, <2>2, <2>3
<1>17. ASSUME NEW t \in Threads, Unregister(t) \/ PushSlot(t) PROVE TypeOK'
  BY <1>17 DEF TypeOK, Unregister, PushSlot
<1>18. ASSUME NEW t \in Threads, HandOver(t) PROVE TypeOK'
  <2>1. PICK e \in EpochSlots, n \in Nodes :
           /\ pending' = [pending EXCEPT ![t] = [pending[t] EXCEPT ![e] = pending[t][e] \ {n}]]
           /\ g_retired' = [g_retired EXCEPT ![e] = g_retired[e] \cup {n}]
    BY <1>18 DEF HandOver
  <2>2. pending' \in [Threads -> [EpochSlots -> SUBSET Nodes]]
    BY <2>1 DEF TypeOK
  <2> QED  BY <1>18, <2>1, <2>2 DEF TypeOK, HandOver
<1>19. ASSUME NEW t \in Threads, Destroyed(t) PROVE TypeOK'
  BY <1>19 DEF TypeOK, Destroyed
<1>20. ASSUME UNCHANGED vars PROVE TypeOK'
  BY <1>20 DEF TypeOK, vars
<1> QED
  BY <1>1, <1>2, <1>3, <1>4, <1>5, <1>6, <1>7, <1>8, <1>9, <1>10, <1>11, <1>12, <1>13, <1>14,
     <1>15, <1>16, <1>17, <1>18, <1>19, <1>20 DEF Next, Step, Terminated

LEMMA SlotNext == TypeOK /\ SlotInv /\ [Next]_vars => SlotInv'
<1> SUFFICES ASSUME TypeOK, SlotInv, [Next]_vars PROVE SlotInv'
  OBVIOUS
<1> USE DEF regVars, countVars, scanVars, listVars, syncVars, freeVars, Goto
<1>1. /\ g_n_threads \in Nat /\ IsFiniteSet(Claimed) /\ Cardinality(Claimed) \in Nat
      /\ g_n_threads <= Cardinality(Claimed) /\ IsFiniteSet(Threads)
      /\ Issued \subseteq {NoSlot} \cup Slots
  BY SlotBound, ThreadsAssumption DEF SlotInv
<1>2. ASSUME g_n_threads' = g_n_threads, Claimed \subseteq Claimed'
      PROVE  g_n_threads' \in Nat /\ g_n_threads' <= Cardinality(Claimed') /\ Issued' = Issued
  <2>1. IsFiniteSet(Claimed')
    BY <1>1, FS_Subset DEF Claimed
  <2>2. Cardinality(Claimed) <= Cardinality(Claimed') /\ Cardinality(Claimed') \in Nat
    BY <2>1, <1>2, FS_Subset, FS_CardinalityType
  <2> QED  BY <1>1, <1>2, <2>2 DEF Issued
<1>3. ASSUME NEW t \in Threads, PopSlot(t) PROVE SlotInv'
  <2>1. pc[t] \in {"new", "pop"} /\ t \notin Claimed
    BY <1>3 DEF PopSlot, Claimed
  <2>2. CASE free_head = NoSlot
    <3>1. pc' = [pc EXCEPT ![t] = "publish"] /\ g_n_threads' = g_n_threads + 1
          /\ slot_index' = [slot_index EXCEPT ![t] = g_n_threads]
          /\ UNCHANGED <<free_head, free_next, next_slot>>
      BY <1>3, <2>2 DEF PopSlot
    <3>2. Claimed' = Claimed \cup {t}
      BY <3>1, <2>1 DEF Claimed, TypeOK
    <3>3. Cardinality(Claimed') = Cardinality(Claimed) + 1
      BY <3>2, <2>1, <1>1, FS_AddElement
    <3>4. Issued \subseteq Issued' /\ g_n_threads \in Issued' /\ g_n_threads # NoSlot
      BY <3>1, <1>1, EpochAssumption DEF Issued
    <3>5. \A u \in Threads : pc'[u] \notin {"new", "pop", "exited"} => slot_index'[u] # NoSlot
      BY <3>1, <3>4 DEF SlotInv, TypeOK
    <3> QED  BY <3>1, <3>3, <3>4, <3>5, <1>1 DEF SlotInv
  <2>3. CASE free_head # NoSlot
    <3>1. pc' = [pc EXCEPT ![t] = "pop_cas"] /\ g_n_threads' = g_n_threads
          /\ slot_index' = [slot_index EXCEPT ![t] = free_head]
          /\ next_slot' = [next_slot EXCEPT ![t] = free_next[free_head]]
          /\ UNCHANGED <<free_head, free_next>>
      BY <1>3, <2>3 DEF PopSlot
    <3>2. Claimed' = Claimed
      BY <3>1, <2>1 DEF Claimed, TypeOK
    <3>3. free_head \in Slots /\ free_next[free_head] \in Issued
      BY <2>3, <1>1 DEF SlotInv
    <3>4. \A u \in Threads : pc'[u] \notin {"new", "pop", "exited"} => slot_index'[u] # NoSlot
      BY <3>1, <2>3 DEF SlotInv, TypeOK
    <3> QED  BY <3>1, <3>2, <3>3, <3>4, <1>2 DEF SlotInv
  <2> QED  BY <2>2, <2>3
<1>4. ASSUME NEW t \in Threads, PopSlotCAS(t) PROVE SlotInv'
  <2>1. g_n_threads' = g_n_threads /\ Claimed \subseteq Claimed' /\ next_slot[t] \in Issued
    BY <1>4 DEF PopSlotCAS, Claimed, TypeOK, SlotInv
  <2>2. free_head' \in Issued /\ next_slot' \in [Threads -> Issued]
    BY <1>4, <2>1 DEF PopSlotCAS, SlotInv, Issued
  <2>3. \A u \in Threads : pc'[u] \notin {"new", "pop", "exited"} => slot_index'[u] # NoSlot
    BY <1>4 DEF PopSlotCAS, SlotInv, TypeOK
  <2>4. UNCHANGED <<free_next, slot_index>>
    BY <1>4 DEF PopSlotCAS
  <2> QED  BY <2>1, <2>2, <2>3, <2>4, <1>2 DEF SlotInv
<1>5. ASSUME NEW t \in Threads, PushSlot(t) PROVE SlotInv'
  <2>1. g_n_threads' = g_n_threads /\ Claimed \subseteq Claimed' /\ slot_index[t] \in Issued
    BY <1>5 DEF PushSlot, Claimed, TypeOK, SlotInv
  <2>2. free_head' \in Issued /\ free_next' \in [Slots -> Issued]
    BY <1>5, <2>1 DEF PushSlot, SlotInv
  <2>3. \A u \in Threads : pc'[u] \notin {"new", "pop", "exited"} => slot_index'[u] # NoSlot
    BY <1>5 DEF PushSlot, SlotInv, TypeOK
  <2>4. UNCHANGED <<slot_index, next_slot>>
    BY <1>5 DEF PushSlot
  <2> QED  BY <2>1, <2>2, <2>3, <2>4, <1>2 DEF SlotInv
<1>6. ASSUME NEW t \in Threads, Destroyed(t) PROVE SlotInv'
  <2>1. g_n_threads' = g_n_threads /\ Claimed \subseteq Claimed'
    BY <1>6 DEF Destroyed, Claimed, TypeOK
  <2>2. slot_index' \in [Threads -> Issued] /\ UNCHANGED <<free_head, free_next, next_slot>>
    BY <1>6 DEF Destroyed, SlotInv, Issued
  <2>3. \A u \in Threads : pc'[u] \notin {"new", "pop", "exited"} => slot_index'[u] # NoSlot
    BY <1>6 DEF Destroyed, SlotInv, TypeOK
  <2> QED  BY <2>1, <2>2, <2>3, <1>2 DEF SlotInv
<1>7. ASSUME UNCHANGED <<g_n_threads, free_head, free_next, slot_index, next_slot>>,
             \A u \in Threads : pc'[u] = pc[u] \/ (pc'[u] \notin {"new", "pop", "pop_cas"}
                                                  /\ pc[u] \notin {"new", "pop", "exited"})
      PROVE  SlotInv'
  <2>1. Claimed \subseteq Claimed'
    BY <1>7 DEF Claimed
  <2>2. \A u \in Threads : pc'[u] \notin {"new", "pop", "exited"} => slot_index'[u] # NoSlot
    BY <1>7 DEF SlotInv
  <2>3. g_n_threads' = g_n_threads /\ Issued' = Issued
    BY <1>7, <2>1, <1>2
  <2> QED  BY <1>7, <2>1, <2>2, <2>3, <1>2 DEF SlotInv
<1>8. ASSUME NEW t \in Threads,
             \/ Publish(t) \/ Enter(t) \/ (\E n \in Nodes : Unlink(t, n)) \/ Retire(t) \/ Exit(t)
             \/ ReadEpoch(t) \/ Refresh(t) \/ GcBegin(t) \/ ScanContext(t) \/ ScanCritical(t)
      PROVE  SlotInv'
  BY <1>8, <1>7 DEF TypeOK, Publish, Enter, Unlink, Retire, Exit, ReadEpoch, Refresh, GcBegin,
                    GiveUp, ScanContext, ScanCritical, NextContext
<1>9. ASSUME NEW t \in Threads,
             \/ ScanEpoch(t) \/ Advance(t) \/ Collect(t) \/ Reclaim(t) \/ Reclaimed(t) \/ Sync(t)
             \/ SyncReturn(t) \/ Unregister(t) \/ HandOver(t)
      PROVE  SlotInv'
  BY <1>9, <1>7 DEF TypeOK, ScanEpoch, Advance, GiveUp, NextContext, Collect, Reclaim, Reclaimed,
                    Sync, SyncReturn, BeginSync, Unregister, HandOver
<1>10. ASSUME UNCHANGED vars PROVE SlotInv'
  BY <1>10, <1>7 DEF vars
<1> QED  BY <1>3, <1>4, <1>5, <1>6, <1>8, <1>9, <1>10 DEF Next, Step, Terminated

\* The epoch and the number of slots only grow.
LEMMA Monotone ==
    ASSUME TypeOK, SlotInv, [Next]_vars
    PROVE  g_epoch' \in Nat /\ g_epoch' >= g_epoch /\ g_n_threads' \in Nat /\ g_n_threads' >= g_n_threads
<1> USE DEF regVars, TypeOK, SlotInv
<1>1. ASSUME NEW t \in Threads, PopSlot(t) \/ Advance(t)
      PROVE  g_epoch' \in Nat /\ g_epoch' >= g_epoch /\ g_n_threads' \in Nat /\ g_n_threads' >= g_n_threads
  BY <1>1 DEF PopSlot, Advance
<1>2. ASSUME NEW t \in Threads, Step(t), ~ PopSlot(t), ~ Advance(t)
      PROVE  UNCHANGED <<g_epoch, g_n_threads>>
  BY <1>2 DEF Step, PopSlotCAS, Publish, Enter, Unlink, Retire, Exit, ReadEpoch, Refresh, GcBegin,
              ScanContext, ScanCritical, ScanEpoch, Collect, Reclaim, Reclaimed, Sync, SyncReturn, BeginSync,
              Unregister, PushSlot, HandOver, Destroyed
<1>3. ASSUME UNCHANGED vars PROVE UNCHANGED <<g_epoch, g_n_threads>>
  BY <1>3 DEF vars
<1> QED  BY <1>1, <1>2, <1>3 DEF Next, Terminated

LEMMA PhaseNext == TypeOK /\ SlotInv /\ PhaseInv /\ [Next]_vars => PhaseInv'
<1> SUFFICES ASSUME TypeOK, SlotInv, PhaseInv, [Next]_vars PROVE PhaseInv'
  OBVIOUS
<1>1. /\ g_epoch' \in Nat /\ g_epoch' >= g_epoch /\ g_n_threads' \in Nat /\ g_n_threads' >= g_n_threads
      /\ g_n_threads \in Nat /\ g_epoch \in Nat
  BY Monotone DEF TypeOK, SlotInv
<1>2. ASSUME UNCHANGED vars PROVE PhaseInv'
  BY <1>2 DEF vars, regVars, countVars, scanVars, listVars, syncVars, freeVars, PhaseInv, Phase, Scanning
<1>3. ASSUME NEW t \in Threads, Step(t), NEW u \in Threads, u # t PROVE Phase(u)'
  <2>1. Phase(u) /\ seen_n[u] \in Nat /\ seen_epoch[u] \in Nat /\ local_epoch[u] \in Nat
    BY DEF PhaseInv, TypeOK
  <2>2. /\ in_critical'[u] = in_critical[u] /\ local_epoch'[u] = local_epoch[u]
        /\ pending'[u] = pending[u] /\ pc'[u] = pc[u] /\ seen_epoch'[u] = seen_epoch[u]
        /\ seen_n'[u] = seen_n[u] /\ scan'[u] = scan[u] /\ ctx'[u] = ctx[u]
        /\ garbage'[u] = garbage[u] /\ unlinked'[u] = unlinked[u] /\ held'[u] = held[u]
    BY <1>3, Frame
  <2> QED  BY <1>1, <2>1, <2>2 DEF Phase, Scanning
<1>4. ASSUME NEW t \in Threads, Step(t) PROVE Phase(t)'
  <2> USE DEF Phase, Scanning, regVars, countVars, scanVars, listVars, syncVars, freeVars, Goto
  <2>0. Phase(t) /\ seen_n[t] \in Nat /\ seen_epoch[t] \in Nat /\ local_epoch[t] \in Nat /\ scan[t] \in Nat
    BY DEF PhaseInv, TypeOK
  <2>1. CASE PopSlot(t) \/ PopSlotCAS(t)
    BY <1>1, <2>0, <2>1 DEF TypeOK, PopSlot, PopSlotCAS
  <2>2. CASE Publish(t) \/ Enter(t)
    BY <2>0, <2>2 DEF TypeOK, Publish, Enter
  <2>3. CASE \E n \in Nodes : Unlink(t, n)
    BY <2>0, <2>3 DEF TypeOK, Unlink
  <2>4. CASE Retire(t)
    BY <2>0, <2>4 DEF TypeOK, Retire
  <2>5. CASE Exit(t)
    BY <2>0, <2>5 DEF TypeOK, Exit
  <2>6. CASE ReadEpoch(t) \/ Refresh(t)
    BY <1>1, <2>0, <2>6 DEF TypeOK, ReadEpoch, Refresh
  <2>7. CASE GcBegin(t)
    <3>1. CASE GiveUp(t)
      BY <1>1, <2>0, <2>7, <3>1 DEF TypeOK, GcBegin, GiveUp, EndScan
    <3>2. CASE /\ seen_epoch' = [seen_epoch EXCEPT ![t] = g_epoch]
               /\ seen_n' = [seen_n EXCEPT ![t] = g_n_threads]
               /\ Goto(t, "scan") /\ UNCHANGED <<scan, ctx>>
      BY <1>1, <2>0, <2>7, <3>2 DEF TypeOK, GcBegin
    <3> QED  BY <2>7, <3>1, <3>2 DEF GcBegin
  <2>8. CASE ScanContext(t)
    <3>1. CASE NextContext(t)
      BY <1>1, <2>0, <2>8, <3>1 DEF TypeOK, ScanContext, NextContext
    <3>2. CASE /\ g_contexts[scan[t]] # NoThread
               /\ ctx' = [ctx EXCEPT ![t] = g_contexts[scan[t]]]
               /\ Goto(t, "scan_critical") /\ UNCHANGED <<seen_epoch, seen_n, scan>>
      <4>1. scan[t] \in Slots
        BY <1>1, <2>0, <2>8, SlotBound, EpochAssumption DEF ScanContext, Slots
      <4>2. g_contexts[scan[t]] \in Threads
        BY <4>1, <3>2 DEF TypeOK
      <4> QED  BY <1>1, <2>0, <2>8, <3>2, <4>2 DEF TypeOK, ScanContext
    <3> QED  BY <2>8, <3>1, <3>2 DEF ScanContext
  <2>9. CASE ScanCritical(t)
    <3>1. CASE NextContext(t)
      BY <1>1, <2>0, <2>9, <3>1 DEF TypeOK, ScanCritical, NextContext
    <3>2. CASE Goto(t, "scan_epoch") /\ UNCHANGED <<seen_epoch, scanVars>>
      BY <1>1, <2>0, <2>9, <3>2 DEF TypeOK, ScanCritical
    <3> QED  BY <2>9, <3>1, <3>2 DEF ScanCritical
  <2>10. CASE ScanEpoch(t)
    <3>1. CASE NextContext(t)
      BY <1>1, <2>0, <2>10, <3>1 DEF TypeOK, ScanEpoch, NextContext
    <3>2. CASE GiveUp(t)
      BY <1>1, <2>0, <2>10, <3>2 DEF TypeOK, ScanEpoch, GiveUp, EndScan
    <3> QED  BY <2>10, <3>1, <3>2 DEF ScanEpoch
  <2>11. CASE Advance(t)
    <3>1. CASE GiveUp(t)
      BY <1>1, <2>0, <2>11, <3>1 DEF TypeOK, Advance, GiveUp, EndScan
    <3>2. CASE /\ g_epoch = seen_epoch[t] /\ g_epoch' = g_epoch + 1
               /\ EndScan(t) /\ Goto(t, "collect") /\ UNCHANGED seen_epoch
      BY <1>1, <2>0, <2>11, <3>2 DEF TypeOK, Advance, EndScan
    <3> QED  BY <2>11, <3>1, <3>2 DEF Advance
  <2>12. CASE Collect(t)
    BY <1>1, <2>0, <2>12 DEF TypeOK, Collect
  <2>13. CASE Reclaim(t) \/ Reclaimed(t)
    BY <2>0, <2>13 DEF TypeOK, Reclaim, Reclaimed
  <2>14. CASE Sync(t) \/ SyncReturn(t)
    BY <2>0, <2>14 DEF TypeOK, Sync, SyncReturn, BeginSync
  <2>15. CASE Unregister(t) \/ PushSlot(t)
    BY <2>0, <2>15 DEF TypeOK, Unregister, PushSlot
  <2>16. CASE HandOver(t)
    BY <2>0, <2>16 DEF TypeOK, HandOver
  <2>17. CASE Destroyed(t)
    BY <1>1, <2>0, <2>17 DEF TypeOK, Destroyed
  <2> QED
    BY <1>4, <2>1, <2>2, <2>3, <2>4, <2>5, <2>6, <2>7, <2>8, <2>9, <2>10, <2>11, <2>12, <2>13,
       <2>14, <2>15, <2>16, <2>17 DEF Step
<1>5. ASSUME NEW t \in Threads, Step(t) PROVE PhaseInv'
  BY <1>3, <1>4, <1>5 DEF PhaseInv
<1> QED  BY <1>2, <1>5 DEF Next, Terminated

----------------------------------------------------------------------------
(* Every node is linked, freed or in one list.                             *)

\* What the actions that move nodes do to the lists, list by list.
RetireMoves(t, s) ==
    /\ \A u \in Threads, e \in EpochSlots :
          pending'[u][e] = IF u = t /\ e = s THEN pending[u][e] \cup unlinked[t] ELSE pending[u][e]
    /\ \A u \in Threads : unlinked'[u] = IF u = t THEN {} ELSE unlinked[u]
    /\ UNCHANGED <<linked, held, garbage, g_retired, freed, overtaken>>

CollectMoves(t, s) ==
    /\ \A u \in Threads, e \in EpochSlots :
          pending'[u][e] = IF u = t /\ e = s THEN {} ELSE pending[u][e]
    /\ \A e \in EpochSlots : g_retired'[e] = IF e = s THEN {} ELSE g_retired[e]
    /\ \A u \in Threads : garbage'[u] = IF u = t THEN g_retired[s] \cup pending[t][s] ELSE garbage[u]
    /\ UNCHANGED <<linked, unlinked, held, freed>>

HandOverMoves(t, s, m) ==
    /\ m \in pending[t][s]
    /\ \A u \in Threads, e \in EpochSlots :
          pending'[u][e] = IF u = t /\ e = s THEN pending[u][e] \ {m} ELSE pending[u][e]
    /\ \A e \in EpochSlots : g_retired'[e] = IF e = s THEN g_retired[e] \cup {m} ELSE g_retired[e]
    /\ UNCHANGED <<linked, unlinked, held, garbage, freed, overtaken>>

LEMMA RetireEffect ==
    ASSUME TypeOK, NEW t \in Threads, Retire(t)
    PROVE  \E s \in EpochSlots : s = g_epoch % 3 /\ RetireMoves(t, s)
<1>1. PICK s \in EpochSlots : s = g_epoch % 3 /\ s = g_epoch % EBR_EPOCH_COUNT
  BY ModFacts DEF TypeOK
<1>2. pending' = [pending EXCEPT ![t] = [pending[t] EXCEPT ![s] = pending[t][s] \cup unlinked[t]]]
  BY <1>1 DEF Retire
<1>3. unlinked' = [unlinked EXCEPT ![t] = {}]
      /\ UNCHANGED <<linked, held, garbage, g_retired, freed, overtaken>>
  BY DEF Retire
<1>4. \A u \in Threads, e \in EpochSlots :
         pending'[u][e] = IF u = t /\ e = s THEN pending[u][e] \cup unlinked[t] ELSE pending[u][e]
  BY <1>2 DEF TypeOK
<1>5. \A u \in Threads : unlinked'[u] = IF u = t THEN {} ELSE unlinked[u]
  BY <1>3 DEF TypeOK
<1> QED  BY <1>1, <1>3, <1>4, <1>5 DEF RetireMoves

LEMMA CollectEffect ==
    ASSUME TypeOK, NEW t \in Threads, Collect(t)
    PROVE  \E s \in EpochSlots : s = (seen_epoch[t] - 1) % 3 /\ s = ReclaimSlot(t) /\ CollectMoves(t, s)
<1>1. PICK s \in EpochSlots : s = (seen_epoch[t] - 1) % 3 /\ s = ReclaimSlot(t)
  BY ModFacts DEF TypeOK, ReclaimSlot
<1>2. pending' = [pending EXCEPT ![t] = [pending[t] EXCEPT ![s] = {}]]
  BY <1>1 DEF Collect
<1>3. g_retired' = [g_retired EXCEPT ![s] = {}]
      /\ garbage' = [garbage EXCEPT ![t] = g_retired[s] \cup pending[t][s]]
      /\ UNCHANGED <<linked, unlinked, held, freed>>
  BY <1>1 DEF Collect, listVars
<1>4. \A u \in Threads, e \in EpochSlots :
         pending'[u][e] = IF u = t /\ e = s THEN {} ELSE pending[u][e]
  BY <1>2 DEF TypeOK
<1>5. /\ \A e \in EpochSlots : g_retired'[e] = IF e = s THEN {} ELSE g_retired[e]
      /\ \A u \in Threads : garbage'[u] = IF u = t THEN g_retired[s] \cup pending[t][s] ELSE garbage[u]
  BY <1>3 DEF TypeOK
<1> QED  BY <1>1, <1>3, <1>4, <1>5 DEF CollectMoves

LEMMA HandOverEffect ==
    ASSUME TypeOK, NEW t \in Threads, HandOver(t)
    PROVE  \E s \in EpochSlots, m \in Nodes : HandOverMoves(t, s, m)
<1>1. PICK s \in EpochSlots, m \in Nodes :
         /\ m \in pending[t][s]
         /\ pending' = [pending EXCEPT ![t] = [pending[t] EXCEPT ![s] = pending[t][s] \ {m}]]
         /\ g_retired' = [g_retired EXCEPT ![s] = g_retired[s] \cup {m}]
  BY DEF HandOver
<1>2. UNCHANGED <<linked, unlinked, held, garbage, freed, overtaken>>
  BY DEF HandOver, listVars
<1>3. /\ \A u \in Threads, e \in EpochSlots :
            pending'[u][e] = IF u = t /\ e = s THEN pending[u][e] \ {m} ELSE pending[u][e]
      /\ \A e \in EpochSlots : g_retired'[e] = IF e = s THEN g_retired[e] \cup {m} ELSE g_retired[e]
  BY <1>1 DEF TypeOK
<1> QED  BY <1>1, <1>2, <1>3 DEF HandOverMoves

LEMMA ListFrame ==
    ASSUME NEW t \in Threads, Step(t), \A n \in Nodes : ~ Unlink(t, n), ~ Retire(t), ~ Collect(t),
           ~ Reclaim(t), ~ HandOver(t)
    PROVE  UNCHANGED <<linked, unlinked, garbage, pending, g_retired, freed, overtaken>>
BY DEF Step, PopSlot, PopSlotCAS, Publish, Enter, Exit, ReadEpoch, Refresh, GcBegin, ScanContext,
       ScanCritical, ScanEpoch, Advance, Reclaimed, Sync, SyncReturn, BeginSync, Unregister, PushSlot,
       Destroyed, listVars, syncVars, freeVars

\* n is in the list of this kind, thread and epoch slot.
Listed(n, k, t, e) ==
    \/ k = "unlinked" /\ t \in Threads /\ e = 0 /\ n \in unlinked[t]
    \/ k = "garbage" /\ t \in Threads /\ e = 0 /\ n \in garbage[t]
    \/ k = "pending" /\ t \in Threads /\ e \in EpochSlots /\ n \in pending[t][e]
    \/ k = "retired" /\ t = NoThread /\ e \in EpochSlots /\ n \in g_retired[e]

Only(n, k, t, e) ==
    \A k2, t2, e2 : Listed(n, k2, t2, e2) <=> (k2 = k /\ t2 = t /\ e2 = e)

Once(n) ==
    /\ ~ (n \in linked /\ n \in freed)
    /\ n \in linked \cup freed => \A k, t, e : ~ Listed(n, k, t, e)
    /\ n \notin linked \cup freed => \E k, t, e : Only(n, k, t, e)

OnceInv == \A n \in Nodes : Once(n)

\* A node with the same lists as before.
LEMMA OnceSame ==
    ASSUME NEW n, Once(n), n \in linked' <=> n \in linked, n \in freed' <=> n \in freed,
           \A u \in Threads : /\ n \in unlinked'[u] <=> n \in unlinked[u]
                              /\ n \in garbage'[u] <=> n \in garbage[u],
           \A u \in Threads, e \in EpochSlots : n \in pending'[u][e] <=> n \in pending[u][e],
           \A e \in EpochSlots : n \in g_retired'[e] <=> n \in g_retired[e]
    PROVE  Once(n)'
<1>1. \A k, t, e : Listed(n, k, t, e)' <=> Listed(n, k, t, e)
  BY DEF Listed
<1>2. \A k, t, e : Only(n, k, t, e) => Only(n, k, t, e)'
  BY <1>1 DEF Only
<1> QED  BY <1>1, <1>2 DEF Once

LEMMA OnceNext == TypeOK /\ PhaseInv /\ OnceInv /\ [Next]_vars => OnceInv'
<1> SUFFICES ASSUME TypeOK, PhaseInv, OnceInv, [Next]_vars, NEW n \in Nodes PROVE Once(n)'
  BY DEF OnceInv
<1>0. Once(n) /\ 0 \in EpochSlots
  BY ModFacts DEF OnceInv
<1>1. ASSUME NEW t \in Threads, NEW m \in Nodes, Unlink(t, m) PROVE Once(n)'
  <2>1. /\ m \in linked /\ linked' = linked \ {m} /\ unlinked[t] = {}
        /\ unlinked' = [unlinked EXCEPT ![t] = {m}]
        /\ UNCHANGED <<garbage, pending, g_retired, freed>>
    BY <1>1 DEF Unlink, freeVars, PhaseInv, Phase
  <2>2. CASE n # m
    <3>1. \A u \in Threads : n \in unlinked'[u] <=> n \in unlinked[u]
      BY <2>1, <2>2 DEF TypeOK
    <3>2. n \in linked' <=> n \in linked
      BY <2>1, <2>2
    <3> QED  BY <1>0, <2>1, <3>1, <3>2, OnceSame
  <2>3. CASE n = m
    <3>1. n \notin freed /\ \A k, u, e : ~ Listed(n, k, u, e)
      BY <1>0, <2>1, <2>3 DEF Once
    <3>2. \A u \in Threads : n \in unlinked'[u] <=> u = t
      BY <2>1, <2>3, <3>1 DEF TypeOK, Listed
    <3>3. Only(n, "unlinked", t, 0)'
      BY <2>1, <3>1, <3>2 DEF Only, Listed
    <3> QED  BY <2>1, <2>3, <3>1, <3>3 DEF Once
  <2> QED  BY <2>2, <2>3
<1>2. ASSUME NEW t \in Threads, Retire(t) PROVE Once(n)'
  <2>1. PICK s \in EpochSlots : RetireMoves(t, s)
    BY <1>2, RetireEffect
  <2>3. CASE n \notin unlinked[t]
    BY <1>0, <2>1, <2>3, OnceSame DEF RetireMoves
  <2>4. CASE n \in unlinked[t]
    <3>1. Listed(n, "unlinked", t, 0)
      BY <2>4 DEF Listed
    <3>2. n \notin linked \cup freed /\ Only(n, "unlinked", t, 0)
      BY <1>0, <3>1 DEF Once, Only
    <3>3. /\ \A u \in Threads, e \in EpochSlots : n \in pending'[u][e] <=> (u = t /\ e = s)
          /\ \A u \in Threads : n \notin unlinked'[u] /\ n \notin garbage'[u]
          /\ \A e \in EpochSlots : n \notin g_retired'[e]
      <4>1. /\ \A u \in Threads, e \in EpochSlots : n \notin pending[u][e]
            /\ \A u \in Threads : n \notin garbage[u] /\ (n \in unlinked[u] <=> u = t)
            /\ \A e \in EpochSlots : n \notin g_retired[e]
        BY <3>2 DEF Only, Listed
      <4>2. \A u \in Threads, e \in EpochSlots : n \in pending'[u][e] <=> (u = t /\ e = s)
        <5> TAKE u \in Threads, e \in EpochSlots
        <5>1. pending'[u][e] = IF u = t /\ e = s THEN pending[u][e] \cup unlinked[t] ELSE pending[u][e]
          BY <2>1 DEF RetireMoves
        <5>2. n \notin pending[u][e]
          BY <4>1
        <5> QED  BY <5>1, <5>2, <2>4
      <4>3. \A u \in Threads : n \notin unlinked'[u] /\ n \notin garbage'[u]
        BY <2>1, <4>1 DEF RetireMoves
      <4>4. \A e \in EpochSlots : n \notin g_retired'[e]
        BY <2>1, <4>1 DEF RetireMoves
      <4> QED  BY <4>2, <4>3, <4>4
    <3>4. Only(n, "pending", t, s)'
      BY <3>3 DEF Only, Listed
    <3> QED  BY <2>1, <3>2, <3>4 DEF Once, RetireMoves
  <2> QED  BY <2>3, <2>4
<1>3. ASSUME NEW t \in Threads, Collect(t) PROVE Once(n)'
  <2>1. PICK s \in EpochSlots : CollectMoves(t, s)
    BY <1>3, CollectEffect
  <2>3. garbage[t] = {}
    BY <1>3 DEF Collect, PhaseInv, Phase
  <2>4. CASE n \notin g_retired[s] /\ n \notin pending[t][s]
    BY <1>0, <2>1, <2>3, <2>4, OnceSame DEF CollectMoves
  <2>5. ASSUME NEW k, NEW u, Listed(n, k, u, s),
               k \in {"retired", "pending"}, k = "pending" => u = t
        PROVE  Once(n)'
    <3>1. n \notin linked \cup freed /\ Only(n, k, u, s)
      BY <1>0, <2>5 DEF Once, Only
    <3>2. n \in garbage'[t]
      BY <2>1, <2>5 DEF Listed, CollectMoves
    <3>3. /\ \A v \in Threads, e \in EpochSlots : n \notin pending'[v][e]
          /\ \A v \in Threads : n \notin unlinked'[v] /\ (n \in garbage'[v] <=> v = t)
          /\ \A e \in EpochSlots : n \notin g_retired'[e]
      BY <2>1, <2>5, <3>1, <3>2 DEF Only, Listed, CollectMoves
    <3>4. Only(n, "garbage", t, 0)'
      BY <3>3 DEF Only, Listed
    <3> QED  BY <2>1, <3>1, <3>4 DEF Once, CollectMoves
  <2>6. CASE n \in g_retired[s]
    <3>1. Listed(n, "retired", NoThread, s)
      BY <2>6 DEF Listed
    <3> QED  BY <2>5, <3>1
  <2>7. CASE n \in pending[t][s]
    <3>1. Listed(n, "pending", t, s)
      BY <2>7 DEF Listed
    <3> QED  BY <2>5, <3>1
  <2> QED  BY <2>4, <2>6, <2>7
<1>4. ASSUME NEW t \in Threads, Reclaim(t) PROVE Once(n)'
  <2>1. PICK m \in garbage[t] : freed' = freed \cup {m} /\ garbage' = [garbage EXCEPT ![t] = @ \ {m}]
    BY <1>4 DEF Reclaim
  <2>2. UNCHANGED <<linked, unlinked, pending, g_retired>>
    BY <1>4 DEF Reclaim, listVars
  <2>3. CASE n # m
    <3>1. \A u \in Threads : n \in garbage'[u] <=> n \in garbage[u]
      BY <2>1, <2>3 DEF TypeOK
    <3> QED  BY <1>0, <2>1, <2>2, <2>3, <3>1, OnceSame
  <2>4. CASE n = m
    <3>1. Listed(n, "garbage", t, 0)
      BY <2>1, <2>4 DEF Listed
    <3>2. n \notin linked \cup freed /\ Only(n, "garbage", t, 0)
      BY <1>0, <3>1 DEF Once, Only
    <3>3. \A u \in Threads : n \notin garbage'[u]
      BY <2>1, <2>4, <3>2 DEF Only, Listed, TypeOK
    <3>4. \A k, u, e : ~ Listed(n, k, u, e)'
      BY <2>2, <3>2, <3>3 DEF Only, Listed
    <3> QED  BY <2>1, <2>2, <2>4, <3>2, <3>4 DEF Once
  <2> QED  BY <2>3, <2>4
<1>5. ASSUME NEW t \in Threads, HandOver(t) PROVE Once(n)'
  <2>1. PICK s \in EpochSlots, m \in Nodes : HandOverMoves(t, s, m)
    BY <1>5, HandOverEffect
  <2>2. CASE n # m
    BY <1>0, <2>1, <2>2, OnceSame DEF HandOverMoves
  <2>3. CASE n = m
    <3>1. Listed(n, "pending", t, s)
      BY <2>1, <2>3 DEF Listed, HandOverMoves
    <3>2. n \notin linked \cup freed /\ Only(n, "pending", t, s)
      BY <1>0, <3>1 DEF Once, Only
    <3>3. /\ \A u \in Threads, e \in EpochSlots : n \notin pending'[u][e]
          /\ \A u \in Threads : n \notin unlinked'[u] /\ n \notin garbage'[u]
          /\ \A e \in EpochSlots : n \in g_retired'[e] <=> e = s
      <4>1. /\ \A u \in Threads, e \in EpochSlots : n \in pending[u][e] <=> (u = t /\ e = s)
            /\ \A u \in Threads : n \notin unlinked[u] /\ n \notin garbage[u]
            /\ \A e \in EpochSlots : n \notin g_retired[e]
        BY <3>2 DEF Only, Listed
      <4>2. \A u \in Threads, e \in EpochSlots : n \notin pending'[u][e]
        <5> TAKE u \in Threads, e \in EpochSlots
        <5>1. pending'[u][e] = IF u = t /\ e = s THEN pending[u][e] \ {m} ELSE pending[u][e]
          BY <2>1 DEF HandOverMoves
        <5>2. n \in pending[u][e] <=> (u = t /\ e = s)
          BY <4>1
        <5> QED  BY <2>3, <5>1, <5>2
      <4>3. \A u \in Threads : n \notin unlinked'[u] /\ n \notin garbage'[u]
        BY <2>1, <4>1 DEF HandOverMoves
      <4>4. \A e \in EpochSlots : n \in g_retired'[e] <=> e = s
        <5> TAKE e \in EpochSlots
        <5>1. g_retired'[e] = IF e = s THEN g_retired[e] \cup {m} ELSE g_retired[e]
          BY <2>1 DEF HandOverMoves
        <5>2. n \notin g_retired[e]
          BY <4>1
        <5> QED  BY <2>3, <5>1, <5>2
      <4> QED  BY <4>2, <4>3, <4>4
    <3>4. Only(n, "retired", NoThread, s)'
      BY <3>3 DEF Only, Listed
    <3> QED  BY <2>1, <3>2, <3>4 DEF Once, HandOverMoves
  <2> QED  BY <2>2, <2>3
<1>6. ASSUME UNCHANGED <<linked, unlinked, garbage, pending, g_retired, freed>> PROVE Once(n)'
  BY <1>0, <1>6, OnceSame
<1>7. ASSUME UNCHANGED vars PROVE Once(n)'
  BY <1>6, <1>7 DEF vars, listVars, syncVars, freeVars
<1>8. ASSUME NEW t \in Threads, Step(t) PROVE Once(n)'
  BY <1>1, <1>2, <1>3, <1>4, <1>5, <1>6, <1>8, ListFrame
<1> QED  BY <1>7, <1>8 DEF Next, Terminated

\* Being in one list, as the run counts it.
LEMMA OnceCount == TypeOK /\ OnceInv => EveryNodeOnce
<1> SUFFICES ASSUME TypeOK, OnceInv, NEW n \in Nodes
             PROVE  /\ ~ (n \in linked /\ n \in freed)
                    /\ Copies(n) = IF n \in linked \cup freed THEN 0 ELSE 1
  BY DEF EveryNodeOnce, TypeOK
<1> DEFINE A == {t \in Threads : n \in unlinked[t]}
           B == {x \in Threads \X EpochSlots : n \in pending[x[1]][x[2]]}
           C == {e \in EpochSlots : n \in g_retired[e]}
           D == {t \in Threads : n \in garbage[t]}
<1>1. Copies(n) = Cardinality(A) + Cardinality(B) + Cardinality(C) + Cardinality(D)
  BY DEF Copies
<1>2. Once(n)
  BY DEF OnceInv
<1>3. Cardinality({}) = 0 /\ \A x : Cardinality({x}) = 1
  BY FS_EmptySet, FS_Singleton
<1>4. CASE n \in linked \cup freed
  <2>1. \A k, t, e : ~ Listed(n, k, t, e)
    BY <1>2, <1>4 DEF Once
  <2>2. A = {} /\ B = {} /\ C = {} /\ D = {}
    BY <2>1, ModFacts DEF Listed
  <2> HIDE DEF A, B, C, D
  <2>3. Copies(n) = 0
    BY <1>1, <1>3, <2>2
  <2> QED  BY <1>2, <1>4, <2>3 DEF Once
<1>5. CASE n \notin linked \cup freed
  <2>1. PICK k, t, e : Only(n, k, t, e)
    BY <1>2, <1>5 DEF Once
  <2>2. Listed(n, k, t, e) /\ \A k2, t2, e2 : Listed(n, k2, t2, e2) => k2 = k /\ t2 = t /\ e2 = e
    BY <2>1 DEF Only
  <2>3. CASE k = "unlinked"
    <3>1. A = {t} /\ B = {} /\ C = {} /\ D = {}
      BY <2>2, <2>3 DEF Listed
    <3>2. Cardinality(A) = 1 /\ Cardinality(B) = 0 /\ Cardinality(C) = 0 /\ Cardinality(D) = 0
      BY <1>3, <3>1
    <3> QED  BY <1>1, <1>5, <3>2
  <2>4. CASE k = "garbage"
    <3>1. A = {} /\ B = {} /\ C = {} /\ D = {t}
      BY <2>2, <2>4 DEF Listed
    <3>2. Cardinality(A) = 0 /\ Cardinality(B) = 0 /\ Cardinality(C) = 0 /\ Cardinality(D) = 1
      BY <1>3, <3>1
    <3> QED  BY <1>1, <1>5, <3>2
  <2>5. CASE k = "pending"
    <3>1. A = {} /\ C = {} /\ D = {}
      BY <2>2, <2>5 DEF Listed
    <3>2. B = {<<t, e>>}
      BY <2>2, <2>5 DEF Listed
    <3>3. Cardinality(A) = 0 /\ Cardinality(B) = 1 /\ Cardinality(C) = 0 /\ Cardinality(D) = 0
      BY <1>3, <3>1, <3>2
    <3> QED  BY <1>1, <1>5, <3>3
  <2>6. CASE k = "retired"
    <3>1. A = {} /\ B = {} /\ C = {e} /\ D = {}
      BY <2>2, <2>6 DEF Listed
    <3>2. Cardinality(A) = 0 /\ Cardinality(B) = 0 /\ Cardinality(C) = 1 /\ Cardinality(D) = 0
      BY <1>3, <3>1
    <3> QED  BY <1>1, <1>5, <3>2
  <2> QED  BY <2>2, <2>3, <2>4, <2>5, <2>6 DEF Listed
<1> QED  BY <1>4, <1>5

----------------------------------------------------------------------------
(* The stack of free slots.                                                *)

\* While no outdated next is swapped in, the steps of a thread keep it a stack.
LEMMA StackNext ==
    ASSUME TypeOK, SlotInv, StackInv, Published, [Next]_vars, ~ aba'
    PROVE  StackInv' /\ Published'
<1> USE DEF regVars, Goto
<1>1. /\ g_n_threads \in Nat /\ Issued \subseteq {NoSlot} \cup Slots
      /\ Issued = {NoSlot} \cup 0..(g_n_threads - 1) /\ NoSlot \notin Nat
      /\ 0..(g_n_threads - 1) \subseteq Slots
  BY SlotBound, EpochAssumption DEF SlotInv, Issued
<1>2. ASSUME UNCHANGED <<g_n_threads, free_head, free_next, slot_index, g_contexts>>,
             \A u \in Threads : pc'[u] = pc[u] \/ (~ Owns(u) /\ ~ Owns(u)')
                               \/ (Owns(u)' /\ Owns(u) /\ pc[u] \notin {"publish", "push_slot"})
      PROVE  StackInv' /\ Published'
  <2>1. \A u \in Threads : Owns(u)' = Owns(u)
    BY <1>2 DEF Owns
  <2>2. FreeSlots' = FreeSlots
    BY <1>2, <2>1 DEF FreeSlots
  <2>3. StackInv'
    BY <1>2, <2>1, <2>2 DEF StackInv
  <2>4. ASSUME NEW u \in Threads, Owns(u)', pc'[u] \notin {"publish", "push_slot"}
        PROVE  g_contexts'[slot_index'[u]] = u
    <3>1. CASE pc'[u] = pc[u]
      BY <1>2, <2>1, <2>4, <3>1 DEF Published
    <3>2. CASE pc'[u] # pc[u]
      BY <1>2, <2>1, <2>4, <3>2 DEF Published, Owns
    <3> QED  BY <3>1, <3>2
  <2> QED  BY <2>3, <2>4 DEF Published
<1>3. ASSUME NEW t \in Threads, PopSlot(t) PROVE StackInv' /\ Published'
  <2>1. ~ Owns(t) /\ UNCHANGED <<free_head, free_next, g_contexts>>
        /\ \A u \in Threads \ {t} : pc'[u] = pc[u] /\ slot_index'[u] = slot_index[u]
    BY <1>3 DEF PopSlot, Owns, TypeOK, SlotInv
  <2>2. CASE free_head = NoSlot
    <3>1. pc'[t] = "publish" /\ g_n_threads' = g_n_threads + 1 /\ slot_index'[t] = g_n_threads
      BY <1>3, <2>2 DEF PopSlot, TypeOK, SlotInv
    <3>2. \A u \in Threads : slot_index[u] # g_n_threads
      BY <1>1 DEF SlotInv
    <3>3. Owns(t)' /\ \A u \in Threads \ {t} : Owns(u)' = Owns(u)
      BY <2>1, <3>1 DEF Owns
    <3>4. FreeSlots' = FreeSlots
      BY <1>1, <2>1, <3>1, <3>3 DEF FreeSlots
    <3>5. \A u, v \in Threads : Owns(u)' /\ Owns(v)' /\ slot_index'[u] = slot_index'[v] => u = v
      BY <2>1, <3>1, <3>2, <3>3 DEF StackInv
    <3>6. StackInv'
      BY <2>1, <3>4, <3>5 DEF StackInv
    <3>7. Published'
      BY <2>1, <3>1, <3>3 DEF Published
    <3> QED  BY <3>6, <3>7
  <2>3. CASE free_head # NoSlot
    <3>1. pc'[t] = "pop_cas" /\ g_n_threads' = g_n_threads
      BY <1>3, <2>3 DEF PopSlot, TypeOK
    <3>2. ~ Owns(t)' /\ \A u \in Threads \ {t} : Owns(u)' = Owns(u)
      BY <2>1, <3>1 DEF Owns
    <3>3. FreeSlots' = FreeSlots
      BY <2>1, <3>1, <3>2 DEF FreeSlots
    <3>4. StackInv'
      BY <2>1, <3>2, <3>3 DEF StackInv
    <3>5. Published'
      BY <2>1, <3>2 DEF Published
    <3> QED  BY <3>4, <3>5
  <2> QED  BY <2>2, <2>3
<1>4. ASSUME NEW t \in Threads, PopSlotCAS(t) PROVE StackInv' /\ Published'
  <2>1. ~ Owns(t) /\ UNCHANGED <<free_next, g_contexts, slot_index, g_n_threads>>
        /\ \A u \in Threads \ {t} : pc'[u] = pc[u]
    BY <1>4 DEF PopSlotCAS, Owns, TypeOK
  <2>2. CASE free_head = slot_index[t]
    <3>1. pc'[t] = "publish" /\ free_head' = free_next[free_head]
      BY <1>4, <2>2 DEF PopSlotCAS, TypeOK
    <3>2. Owns(t)' /\ \A u \in Threads \ {t} : Owns(u)' = Owns(u)
      BY <2>1, <3>1 DEF Owns
    <3>3. free_head # NoSlot /\ free_head \in Slots /\ free_head \in FreeSlots
      BY <1>1, <1>4, <2>2 DEF PopSlotCAS, SlotInv, StackInv
    <3>4. FreeSlots' = FreeSlots \ {free_head}
      BY <2>1, <2>2, <3>2 DEF FreeSlots
    <3>5. \A u, v \in Threads : Owns(u)' /\ Owns(v)' /\ slot_index'[u] = slot_index'[v] => u = v
      BY <2>1, <2>2, <3>2, <3>3 DEF StackInv, FreeSlots
    <3>6. free_head' # NoSlot => free_head' \in FreeSlots'
      BY <2>1, <3>1, <3>3, <3>4 DEF StackInv
    <3>7. ASSUME NEW s \in Slots, s \in FreeSlots', free_next'[s] # NoSlot
          PROVE  /\ free_next'[s] \in FreeSlots'
                 /\ free_next'[s] # free_head'
                 /\ \A r \in Slots : r \in FreeSlots' /\ free_next'[r] = free_next'[s] => r = s
      <4>1. s \in FreeSlots /\ s # free_head /\ free_next[s] # NoSlot
        BY <2>1, <3>4, <3>7
      <4>2. free_next[s] \in FreeSlots /\ free_next[s] # free_head
        BY <4>1 DEF StackInv
      <4>3. \A r \in Slots : r \in FreeSlots /\ free_next[r] = free_next[s] => r = s
        BY <4>1 DEF StackInv
      <4> QED  BY <2>1, <3>1, <3>3, <3>4, <4>1, <4>2, <4>3
    <3>8. StackInv'
      BY <3>5, <3>6, <3>7 DEF StackInv
    <3>9. Published'
      BY <2>1, <3>1, <3>2 DEF Published
    <3> QED  BY <3>8, <3>9
  <2>3. CASE free_head # slot_index[t]
    <3>1. pc'[t] = "pop" /\ free_head' = free_head
      BY <1>4, <2>3 DEF PopSlotCAS, TypeOK
    <3>2. ~ Owns(t)'
      BY <3>1 DEF Owns
    <3> QED  BY <1>2, <2>1, <3>1, <3>2
  <2> QED  BY <2>2, <2>3
<1>5. ASSUME NEW t \in Threads, Publish(t) PROVE StackInv' /\ Published'
  <2>1. /\ UNCHANGED <<free_head, free_next, g_n_threads, slot_index>>
        /\ pc[t] = "publish" /\ pc'[t] = "enter" /\ \A u \in Threads \ {t} : pc'[u] = pc[u]
        /\ g_contexts' = [g_contexts EXCEPT ![slot_index[t]] = t]
    BY <1>5 DEF Publish, TypeOK
  <2>2. \A u \in Threads : Owns(u)' = Owns(u)
    BY <2>1 DEF Owns
  <2>3. FreeSlots' = FreeSlots
    BY <2>1, <2>2 DEF FreeSlots
  <2>4. StackInv'
    BY <2>1, <2>2, <2>3 DEF StackInv
  <2>5. slot_index[t] \in Slots /\ \A u \in Threads : Owns(u) => slot_index[u] # slot_index[t] \/ u = t
    BY <1>1, <2>1 DEF StackInv, SlotInv, Owns
  <2>6. Published'
    BY <2>1, <2>2, <2>5 DEF Published, TypeOK
  <2> QED  BY <2>4, <2>6
<1>6. ASSUME NEW t \in Threads, Unregister(t) PROVE StackInv' /\ Published'
  <2>1. /\ UNCHANGED <<free_head, free_next, g_n_threads, slot_index>>
        /\ pc[t] = "idle" /\ pc'[t] = "push_slot" /\ \A u \in Threads \ {t} : pc'[u] = pc[u]
        /\ g_contexts' = [g_contexts EXCEPT ![slot_index[t]] = NoThread]
    BY <1>6 DEF Unregister, TypeOK
  <2>2. \A u \in Threads : Owns(u)' = Owns(u)
    BY <2>1 DEF Owns
  <2>3. FreeSlots' = FreeSlots
    BY <2>1, <2>2 DEF FreeSlots
  <2>4. StackInv'
    BY <2>1, <2>2, <2>3 DEF StackInv
  <2>5. slot_index[t] \in Slots /\ \A u \in Threads : Owns(u) => slot_index[u] # slot_index[t] \/ u = t
    BY <1>1, <2>1 DEF StackInv, SlotInv, Owns
  <2>6. ASSUME NEW u \in Threads, Owns(u)', pc'[u] \notin {"publish", "push_slot"}
        PROVE  g_contexts'[slot_index'[u]] = u
    <3>1. u # t /\ Owns(u) /\ pc[u] \notin {"publish", "push_slot"}
      BY <2>1, <2>2, <2>6
    <3>2. slot_index[u] \in Slots /\ slot_index[u] # slot_index[t] /\ g_contexts[slot_index[u]] = u
      BY <1>1, <2>5, <3>1 DEF Published, SlotInv, Owns
    <3> QED  BY <2>1, <3>2 DEF TypeOK
  <2>7. Published'
    BY <2>6 DEF Published
  <2> QED  BY <2>4, <2>7
<1>7. ASSUME NEW t \in Threads, PushSlot(t) PROVE StackInv' /\ Published'
  <2>1. /\ UNCHANGED <<g_n_threads, slot_index, g_contexts>>
        /\ pc[t] = "push_slot" /\ pc'[t] = "hand_over" /\ \A u \in Threads \ {t} : pc'[u] = pc[u]
        /\ free_head' = slot_index[t]
        /\ free_next' = [free_next EXCEPT ![slot_index[t]] = free_head]
    BY <1>7 DEF PushSlot, TypeOK
  <2>2. Owns(t) /\ ~ Owns(t)' /\ \A u \in Threads \ {t} : Owns(u)' = Owns(u)
    BY <2>1 DEF Owns
  <2>3. slot_index[t] \in 0..(g_n_threads - 1) /\ slot_index[t] \in Slots /\ slot_index[t] # NoSlot
    BY <1>1, <2>1 DEF SlotInv
  <2>4. slot_index[t] \notin FreeSlots /\ FreeSlots' = FreeSlots \cup {slot_index[t]}
    BY <2>1, <2>2, <2>3 DEF FreeSlots, StackInv
  <2>5. /\ free_next'[slot_index[t]] = free_head
        /\ \A s \in Slots \ {slot_index[t]} : free_next'[s] = free_next[s]
    BY <2>1, <2>3 DEF SlotInv
  <2>6. ASSUME NEW s \in Slots, s \in FreeSlots', free_next'[s] # NoSlot
        PROVE  /\ free_next'[s] \in FreeSlots'
               /\ free_next'[s] # free_head'
               /\ \A r \in Slots : r \in FreeSlots' /\ free_next'[r] = free_next'[s] => r = s
    <3>1. CASE s = slot_index[t]
      <4>1. free_next'[s] = free_head /\ free_head # NoSlot
        BY <2>5, <2>6, <3>1
      <4>2. free_head \in FreeSlots
        BY <4>1 DEF StackInv
      <4>3. ASSUME NEW r \in Slots, r \in FreeSlots', free_next'[r] = free_head, r # s PROVE FALSE
        <5>1. r \in FreeSlots /\ free_next[r] = free_head
          BY <2>4, <2>5, <3>1, <4>3
        <5> QED  BY <4>1, <5>1 DEF StackInv
      <4> QED  BY <2>1, <2>4, <4>1, <4>2, <4>3
    <3>2. CASE s # slot_index[t]
      <4>1. s \in FreeSlots /\ free_next'[s] = free_next[s] /\ free_next[s] # NoSlot
        BY <2>4, <2>5, <2>6, <3>2
      <4>2. free_next[s] \in FreeSlots /\ free_next[s] # free_head
        BY <4>1 DEF StackInv
      <4>3. \A r \in Slots : r \in FreeSlots /\ free_next[r] = free_next[s] => r = s
        BY <4>1 DEF StackInv
      <4>4. ASSUME NEW r \in Slots, r \in FreeSlots', free_next'[r] = free_next'[s] PROVE r = s
        <5>1. r # slot_index[t]
          BY <2>5, <4>1, <4>2, <4>4
        <5> QED  BY <2>4, <2>5, <4>1, <4>3, <4>4, <5>1
      <4> QED  BY <2>1, <2>4, <4>1, <4>2, <4>4
    <3> QED  BY <3>1, <3>2
  <2>7. \A u, v \in Threads : Owns(u)' /\ Owns(v)' /\ slot_index'[u] = slot_index'[v] => u = v
    BY <2>1, <2>2 DEF StackInv
  <2>8. StackInv'
    BY <2>1, <2>4, <2>6, <2>7 DEF StackInv
  <2>9. Published'
    BY <2>1, <2>2 DEF Published
  <2> QED  BY <2>8, <2>9
<1>8. ASSUME NEW t \in Threads, Destroyed(t) PROVE StackInv' /\ Published'
  <2>1. /\ UNCHANGED <<free_head, free_next, g_n_threads, g_contexts>>
        /\ ~ Owns(t) /\ ~ Owns(t)' /\ \A u \in Threads \ {t} : pc'[u] = pc[u] /\ slot_index'[u] = slot_index[u]
    BY <1>8 DEF Destroyed, TypeOK, SlotInv, Owns
  <2>2. \A u \in Threads : Owns(u)' = Owns(u)
    BY <2>1 DEF Owns
  <2>3. FreeSlots' = FreeSlots
    BY <2>1, <2>2 DEF FreeSlots
  <2>4. StackInv'
    BY <2>1, <2>2, <2>3 DEF StackInv
  <2>5. Published'
    BY <2>1, <2>2 DEF Published
  <2> QED  BY <2>4, <2>5
<1>9. ASSUME NEW t \in Threads,
             \/ Enter(t) \/ (\E n \in Nodes : Unlink(t, n)) \/ Retire(t) \/ Exit(t) \/ ReadEpoch(t)
             \/ Refresh(t) \/ GcBegin(t) \/ ScanContext(t) \/ ScanCritical(t) \/ ScanEpoch(t)
      PROVE  StackInv' /\ Published'
  BY <1>9, <1>2 DEF TypeOK, Owns, Enter, Unlink, Retire, Exit, ReadEpoch, Refresh, GcBegin,
                    ScanContext, ScanCritical, ScanEpoch, NextContext, GiveUp
<1>10. ASSUME NEW t \in Threads,
             \/ Advance(t) \/ Collect(t) \/ Reclaim(t) \/ Reclaimed(t) \/ Sync(t) \/ SyncReturn(t)
             \/ HandOver(t)
      PROVE  StackInv' /\ Published'
  BY <1>10, <1>2 DEF TypeOK, Owns, Advance, GiveUp, Collect, Reclaim, Reclaimed, Sync, SyncReturn,
                    BeginSync, HandOver
<1>11. ASSUME UNCHANGED vars PROVE StackInv' /\ Published'
  BY <1>11, <1>2 DEF vars
<1> QED
  BY <1>3, <1>4, <1>5, <1>6, <1>7, <1>8, <1>9, <1>10, <1>11 DEF Next, Step, Terminated

\* An outdated next stays swapped in.
LEMMA AbaStays == [Next]_vars /\ aba => aba'
<1> SUFFICES ASSUME aba, [Next]_vars PROVE aba'
  OBVIOUS
<1>1. ASSUME NEW t \in Threads, PopSlotCAS(t) PROVE aba'
  BY <1>1 DEF PopSlotCAS
<1>2. ASSUME NEW t \in Threads, Step(t), ~ PopSlotCAS(t) PROVE aba'
  BY <1>2 DEF Step, regVars, PopSlot, Publish, Enter, Unlink, Retire, Exit, ReadEpoch, Refresh,
     GcBegin, ScanContext, ScanCritical, ScanEpoch, Advance, Collect, Reclaim, Reclaimed, Sync,
     SyncReturn, BeginSync, Unregister, PushSlot, HandOver, Destroyed
<1>3. ASSUME UNCHANGED vars PROVE aba'
  BY <1>3 DEF vars, regVars
<1> QED  BY <1>1, <1>2, <1>3 DEF Next, Terminated


----------------------------------------------------------------------------
(* ebr_sync.                                                               *)

\* No step of another thread leaves a thread alone in ebr_sync.
LEMMA SyncAlone ==
    ASSUME TypeOK, SyncInv, NEW t \in Threads, Step(t), NEW v \in Threads, v # t,
           target'[v] # 0, alone'[v]
    PROVE  FALSE
<1>1. alone[v] /\ ~ PopSlot(t)
  <2>1. CASE PopSlot(t)
    BY <2>1 DEF PopSlot
  <2>2. CASE Sync(t) \/ SyncReturn(t)
    BY <2>2 DEF Sync, SyncReturn, BeginSync, TypeOK, PopSlot
  <2>3. CASE ~ PopSlot(t) /\ ~ Sync(t) /\ ~ SyncReturn(t)
    <3>1. alone' = alone
      BY <2>3 DEF Step, syncVars, PopSlotCAS, Publish, Enter, Unlink, Retire, Exit, ReadEpoch,
         Refresh, GcBegin, ScanContext, ScanCritical, ScanEpoch, Advance, Collect, Reclaim,
         Reclaimed, Unregister, PushSlot, HandOver, Destroyed
    <3> QED  BY <2>3, <3>1
  <2> QED  BY <2>1, <2>2, <2>3
<1>2. SyncRuns(v)
  BY <1>1, Frame DEF SyncInv
<1>3. pc[t] \in {"new", "exited"}
  BY <1>2 DEF SyncRuns
<1> QED
  BY <1>1, <1>3 DEF Step, PopSlotCAS, Publish, Enter, Unlink, Retire, Exit, ReadEpoch, Refresh,
     GcBegin, ScanContext, ScanCritical, ScanEpoch, Advance, Collect, Reclaim, Reclaimed, Sync,
     SyncReturn, Unregister, PushSlot, HandOver, Destroyed

LEMMA SyncNext == TypeOK /\ SlotInv /\ PhaseInv /\ SyncInv /\ [Next]_vars => SyncInv'
<1> SUFFICES ASSUME TypeOK, SlotInv, PhaseInv, SyncInv, [Next]_vars PROVE SyncInv'
  OBVIOUS
<1>1. ASSUME UNCHANGED vars PROVE SyncInv'
  BY <1>1 DEF vars, scanVars, freeVars, syncVars, listVars, SyncInv, SyncRuns
<1>2. ASSUME NEW t \in Threads, Step(t), NEW v \in Threads, v # t, (target[v] # 0 /\ alone[v])'
      PROVE  SyncRuns(v)'
  BY <1>2, SyncAlone
<1>3. ASSUME NEW t \in Threads, Step(t), (target[t] # 0 /\ alone[t])' PROVE SyncRuns(t)'
  <2>0. /\ \A u \in Threads \ {t} : pc'[u] = pc[u]
        /\ target[t] \in Nat /\ g_epoch \in Nat /\ seen_epoch[t] \in Nat /\ EBR_EPOCH_COUNT = 3
    BY <1>3, Frame, ModFacts DEF TypeOK
  <2>1. CASE Sync(t)
    <3>1. /\ target'[t] = g_epoch + 3 /\ g_epoch' = g_epoch /\ pc' = pc /\ pc[t] = "idle"
          /\ linked' = linked
      BY <2>0, <2>1 DEF Sync, BeginSync, listVars, TypeOK
    <3>2. \A e \in (target'[t] - 3)..(g_epoch' - 1) : FALSE
      BY <3>1, <2>0
    <3>3. target'[t] >= 3
      BY <3>1, <2>0
    <3>4. \A u \in Threads \ {t} : pc[u] \in {"new", "exited"}
      BY <1>3, <2>1 DEF Sync, BeginSync, TypeOK
    <3>5. due'[t] \cap linked' = {}
      BY <2>1, <3>1 DEF Sync, BeginSync, Retired, TypeOK
    <3> QED  BY <2>0, <3>1, <3>2, <3>3, <3>4, <3>5 DEF SyncRuns
  <2>2. CASE ~ Sync(t)
    <3>0. ~ SyncReturn(t)
      BY <1>3 DEF SyncReturn, TypeOK
    <3>1. target' = target /\ due' = due /\ alone'[t] = alone[t]
      <4>1. CASE PopSlot(t)
        BY <4>1 DEF PopSlot, TypeOK
      <4>2. CASE ~ PopSlot(t)
        BY <1>3, <2>2, <3>0, <4>2 DEF Step, syncVars, PopSlotCAS, Publish, Enter, Unlink, Retire,
           Exit, ReadEpoch, Refresh, GcBegin, ScanContext, ScanCritical, ScanEpoch, Advance,
           Collect, Reclaim, Reclaimed, Unregister, PushSlot, HandOver, Destroyed
      <4> QED  BY <4>1, <4>2
    <3>2. target[t] # 0 /\ alone[t]
      BY <1>3, <3>1
    <3>3. SyncRuns(t)
      BY <3>2 DEF SyncInv
    <3>4. ASSUME UNCHANGED <<g_epoch, pending, g_retired>>, pc[t] # "collect", pc'[t] # "collect",
                 linked' = linked,
                 pc'[t] \in {"critical", "idle", "read_epoch", "refresh", "gc", "scan",
                             "scan_critical", "scan_epoch", "reclaim"}
          PROVE  SyncRuns(t)'
      BY <2>0, <3>1, <3>3, <3>4 DEF SyncRuns
    <3>5. CASE Enter(t) \/ Exit(t) \/ ReadEpoch(t) \/ Refresh(t)
      BY <3>4, <3>5 DEF Enter, Exit, ReadEpoch, Refresh, Goto, freeVars, listVars, TypeOK
    <3>6. CASE GcBegin(t) \/ ScanContext(t) \/ ScanCritical(t) \/ ScanEpoch(t)
      BY <3>4, <3>6 DEF GcBegin, ScanContext, ScanCritical, ScanEpoch, NextContext, GiveUp, Goto,
                        freeVars, listVars, TypeOK
    <3>7. CASE Reclaim(t) \/ Reclaimed(t)
      BY <3>4, <3>7 DEF Reclaim, Reclaimed, Goto, freeVars, listVars, TypeOK
    <3>8. CASE Advance(t)
      <4>1. pc[t] = "scan" /\ pending' = pending /\ g_retired' = g_retired /\ linked' = linked
        BY <3>8 DEF Advance, freeVars, listVars
      <4>2. CASE GiveUp(t) /\ UNCHANGED g_epoch
        BY <3>4, <4>1, <4>2 DEF GiveUp, Goto, TypeOK
      <4>3. CASE /\ g_epoch = seen_epoch[t] /\ g_epoch' = g_epoch + 1
                 /\ Goto(t, "collect") /\ UNCHANGED seen_epoch
        <5>1. pc'[t] = "collect" /\ seen_epoch'[t] = g_epoch
          BY <4>3 DEF Goto, TypeOK
        <5>2. ASSUME NEW e \in (target'[t] - EBR_EPOCH_COUNT)..(g_epoch' - 1),
                     ~ (pc'[t] = "collect" /\ seen_epoch'[t] = e)
              PROVE  /\ pending'[t][(e - 1) % EBR_EPOCH_COUNT] = {}
                     /\ g_retired'[(e - 1) % EBR_EPOCH_COUNT] = {}
          <6>1. e \in (target[t] - EBR_EPOCH_COUNT)..(g_epoch - 1)
            BY <2>0, <3>1, <4>3, <5>1, <5>2
          <6> QED  BY <3>3, <4>1, <6>1 DEF SyncRuns
        <5> QED  BY <2>0, <3>1, <3>3, <4>1, <5>1, <5>2 DEF SyncRuns
      <4> QED  BY <3>8, <4>2, <4>3 DEF Advance
    <3>9. CASE Collect(t)
      <4>1. PICK s \in EpochSlots :
               s = (seen_epoch[t] - 1) % 3 /\ s = ReclaimSlot(t) /\ CollectMoves(t, s)
        BY <3>9, CollectEffect
      <4>2. pc[t] = "collect" /\ pc'[t] = "reclaim" /\ g_epoch' = g_epoch
            /\ linked' = linked
        BY <3>9 DEF Collect, Goto, listVars, TypeOK
      <4>3. ASSUME NEW e \in (target'[t] - EBR_EPOCH_COUNT)..(g_epoch' - 1)
            PROVE  /\ pending'[t][(e - 1) % EBR_EPOCH_COUNT] = {}
                   /\ g_retired'[(e - 1) % EBR_EPOCH_COUNT] = {}
        <5>1. e \in (target[t] - EBR_EPOCH_COUNT)..(g_epoch - 1) /\ target[t] >= EBR_EPOCH_COUNT
          BY <3>1, <3>3, <4>2 DEF SyncRuns
        <5>2. e \in Nat
          BY <2>0, <5>1
        <5>3. PICK d \in EpochSlots : d = (e - 1) % EBR_EPOCH_COUNT
          BY <5>2, ModFacts
        <5>4. CASE e = seen_epoch[t]
          BY <2>0, <4>1, <5>3, <5>4 DEF CollectMoves
        <5>5. CASE e # seen_epoch[t]
          <6>1. pending[t][d] = {} /\ g_retired[d] = {}
            BY <3>3, <5>1, <5>3, <5>5 DEF SyncRuns
          <6>2. pending'[t][d] = {} /\ g_retired'[d] = {}
            BY <4>1, <6>1 DEF CollectMoves
          <6> QED  BY <5>3, <6>2
        <5> QED  BY <5>4, <5>5
      <4> QED  BY <2>0, <3>1, <3>3, <4>2, <4>3 DEF SyncRuns
    <3> QED
      BY <1>3, <2>2, <3>0, <3>2, <3>3, <3>5, <3>6, <3>7, <3>8, <3>9 DEF Step, SyncRuns, PopSlot,
         PopSlotCAS, Publish, Unlink, Retire, Unregister, PushSlot, HandOver, Destroyed
  <2> QED  BY <2>1, <2>2
<1>4. ASSUME NEW t \in Threads, Step(t) PROVE SyncInv'
  BY <1>2, <1>3, <1>4 DEF SyncInv
<1> QED  BY <1>1, <1>4 DEF Next, Terminated

\* When ebr_sync is alone at the end, no list holds a node it was to free.
LEMMA SyncedFreesAll ==
    ASSUME TypeOK, PhaseInv, OnceInv, SyncInv, NEW t \in Threads, target[t] # 0, alone[t],
           pc[t] = "idle", g_epoch >= target[t]
    PROVE  due[t] \subseteq freed
<1> SUFFICES ASSUME NEW n \in Nodes, n \in due[t], n \notin freed PROVE FALSE
  BY DEF TypeOK
<1>1. SyncRuns(t) /\ target[t] >= 3 /\ g_epoch \in Nat /\ target[t] \in Nat
  BY ModFacts DEF SyncInv, SyncRuns, TypeOK
<1>0. n \notin linked
  BY <1>1 DEF SyncRuns
<1>2. ASSUME NEW s \in EpochSlots PROVE pending[t][s] = {} /\ g_retired[s] = {}
  <2>1. PICK e \in {g_epoch - 3, g_epoch - 2, g_epoch - 1} : s = (e - 1) % 3
    BY <1>1, ModFacts
  <2>2. e \in (target[t] - 3)..(g_epoch - 1)
    BY <1>1, <2>1
  <2> QED  BY <1>1, <2>1, <2>2, ModFacts DEF SyncRuns
<1>3. ASSUME NEW u \in Threads
      PROVE  unlinked[u] = {} /\ garbage[u] = {} /\ \A s \in EpochSlots : pending[u][s] = {}
  <2>1. Phase(u) /\ (u # t => pc[u] \in {"new", "exited"})
    BY <1>1 DEF PhaseInv, SyncRuns
  <2> QED  BY <1>2, <2>1 DEF Phase
<1>4. \A k, u, e : ~ Listed(n, k, u, e)
  BY <1>2, <1>3 DEF Listed
<1>5. PICK k, u, e : Only(n, k, u, e)
  BY <1>0 DEF OnceInv, Once
<1>6. Listed(n, k, u, e)
  BY <1>5 DEF Only
<1> QED  BY <1>4, <1>6

----------------------------------------------------------------------------
(* The theorems.                                                           *)

ListInv == TypeOK /\ SlotInv /\ PhaseInv /\ OnceInv /\ SyncInv

LEMMA ListInit == Init => ListInv
<1> SUFFICES ASSUME Init PROVE ListInv
  OBVIOUS
<1>1. 0 \in EpochSlots /\ EBR_EPOCH_COUNT = 3
  BY ModFacts
<1>2. TypeOK
  BY DEF Init, TypeOK, Labels
<1>3. SlotInv
  <2>1. Claimed = {}
    BY DEF Init, Claimed
  <2>2. Cardinality(Claimed) = 0
    BY <2>1, FS_EmptySet
  <2> QED  BY <2>2 DEF Init, SlotInv, Issued
<1>4. PhaseInv
  BY DEF Init, PhaseInv, Phase, Scanning
<1>5. OnceInv
  BY DEF Init, OnceInv, Once, Listed
<1>6. SyncInv
  BY DEF Init, SyncInv
<1> QED  BY <1>2, <1>3, <1>4, <1>5, <1>6 DEF ListInv

\* The inductive invariant of the registrations and the lists of nodes, whatever
\* the threads do and in whatever order.
THEOREM ListInvariance == Spec => []ListInv
<1>1. ListInv /\ [Next]_vars => ListInv'
  BY TypeNext, SlotNext, PhaseNext, OnceNext, SyncNext DEF ListInv
<1> QED  BY ListInit, <1>1, PTL DEF Spec

\* Retirement, hand-over, collection and reclamation never lose a node and never
\* free one twice: it is linked, freed or in one list.
THEOREM EveryNodeOnceTheorem == Spec => []EveryNodeOnce
<1>1. ListInv => EveryNodeOnce
  BY OnceCount DEF ListInv
<1> QED  BY ListInvariance, <1>1, PTL

\* Three epochs are enough: a call of ebr_sync beside which no other thread has
\* been registered returns when every node retired before it, by anybody, is freed.
THEOREM SyncFreesAllTheorem == Spec => SyncFreesAll
<1>1. ListInv /\ [Next]_vars =>
          [\A t \in Threads : Returns(t) /\ alone[t] => due[t] \subseteq freed]_vars
  <2> SUFFICES ASSUME ListInv, Next, NEW t \in Threads, Returns(t), alone[t]
               PROVE  due[t] \subseteq freed
    BY DEF Terminated
  <2>1. PICK u \in Threads : Step(u)
    BY DEF Next, Terminated, vars, syncVars, Returns
  <2>2. t = u
    BY <2>1, Frame DEF ListInv, Returns
  <2>3. SyncReturn(t)
    <3>1. ~ Sync(t)
      BY ModFacts DEF Sync, Returns, ListInv, TypeOK
    <3> QED
      BY <2>1, <2>2, <3>1 DEF Step, Returns, syncVars, PopSlot, PopSlotCAS, Publish, Enter, Unlink,
         Retire, Exit, ReadEpoch, Refresh, GcBegin, ScanContext, ScanCritical, ScanEpoch, Advance,
         Collect, Reclaim, Reclaimed, Unregister, PushSlot, HandOver, Destroyed
  <2> QED  BY <2>3, SyncedFreesAll DEF SyncReturn, ListInv
<1> QED  BY ListInvariance, <1>1, PTL DEF Spec, SyncFreesAll

----------------------------------------------------------------------------
(* No reader loses a node.                                                 *)

ReadersInv == ReaderInv /\ PassedInv /\ CollectInv

\* Nobody starts to read or to scan, nothing is retired and the epoch stays.
Quiet ==
    /\ g_epoch' = g_epoch
    /\ \A u \in Threads :
          /\ held'[u] \subseteq held[u]
          /\ in_critical'[u] => /\ in_critical[u] /\ local_epoch'[u] = local_epoch[u]
                                /\ slot_index'[u] = slot_index[u]
    /\ \A n, s : InSlot(n, s)' /\ s \in EpochSlots => InSlot(n, s)
    /\ \A t \in Threads : \A s \in EpochSlots : pending'[t][s] \subseteq pending[t][s]
    /\ \A t \in Threads :
          /\ Scanning(t)' => /\ pc'[t] = pc[t] /\ seen_epoch'[t] = seen_epoch[t]
                             /\ scan'[t] = scan[t] /\ seen_n'[t] = seen_n[t] /\ ctx'[t] = ctx[t]
          /\ pc'[t] = "collect" => pc[t] = "collect" /\ seen_epoch'[t] = seen_epoch[t]

LEMMA QuietKeeps == TypeOK /\ ReadersInv /\ Quiet => ReadersInv'
<1> SUFFICES ASSUME TypeOK, ReadersInv, Quiet PROVE ReadersInv'
  OBVIOUS
<1>0. /\ (g_epoch - 1) % EBR_EPOCH_COUNT \in EpochSlots /\ g_epoch' = g_epoch
      /\ \A t \in Threads : ReclaimSlot(t) \in EpochSlots
  BY ModFacts DEF TypeOK, Quiet, ReclaimSlot
<1>1. ASSUME NEW t \in Threads, NEW u \in Threads, Scanning(t)', in_critical'[u]
      PROVE  Scanning(t) /\ (Awaits(t, u)' <=> Awaits(t, u))
  BY <1>1 DEF Quiet, Scanning, Awaits
<1>2. ASSUME NEW u \in Threads, in_critical'[u] PROVE (Fresh(u) \/ Old(u))'
  <2>1. /\ in_critical[u] /\ local_epoch'[u] = local_epoch[u] /\ held'[u] \subseteq held[u]
        /\ \A n, s : InSlot(n, s)' /\ s \in EpochSlots => InSlot(n, s)
    BY <1>2 DEF Quiet
  <2>2. CASE Fresh(u)
    BY <1>0, <2>1, <2>2 DEF Fresh
  <2>3. CASE Old(u)
    <3>1. ASSUME NEW t \in Threads, Scanning(t)', seen_epoch'[t] = g_epoch' PROVE Awaits(t, u)'
      <4>1. Scanning(t) /\ seen_epoch[t] = g_epoch
        BY <1>0, <1>1, <1>2, <3>1 DEF Quiet
      <4> QED  BY <1>1, <1>2, <2>3, <3>1, <4>1 DEF Old
    <3>2. \A n \in held'[u], s \in EpochSlots : InSlot(n, s)' =>
             s \in {g_epoch' % EBR_EPOCH_COUNT, (g_epoch' - 1) % EBR_EPOCH_COUNT}
      BY <1>0, <2>1, <2>3 DEF Old
    <3>3. local_epoch'[u] < g_epoch'
      BY <1>0, <2>1, <2>3 DEF Old
    <3> QED  BY <3>1, <3>2, <3>3 DEF Old
  <2> QED  BY <2>1, <2>2, <2>3 DEF ReadersInv, ReaderInv
<1>3. ASSUME NEW t \in Threads, NEW u \in Threads, Scanning(t)', seen_epoch'[t] = g_epoch',
             in_critical'[u], ~ Awaits(t, u)'
      PROVE  held'[u] \cap pending'[t][(g_epoch' - 1) % EBR_EPOCH_COUNT] = {}
  <2>1. Scanning(t) /\ seen_epoch[t] = g_epoch /\ in_critical[u] /\ ~ Awaits(t, u)
    BY <1>0, <1>1, <1>3 DEF Quiet
  <2>2. held[u] \cap pending[t][(g_epoch - 1) % EBR_EPOCH_COUNT] = {}
    BY <2>1 DEF ReadersInv, PassedInv
  <2>3. /\ held'[u] \subseteq held[u]
        /\ pending'[t][(g_epoch - 1) % EBR_EPOCH_COUNT] \subseteq pending[t][(g_epoch - 1) % EBR_EPOCH_COUNT]
    BY <1>0 DEF Quiet
  <2> QED  BY <1>0, <2>2, <2>3
<1>4. ASSUME NEW t \in Threads, NEW u \in Threads, pc'[t] = "collect"
      PROVE  held'[u] \cap pending'[t][ReclaimSlot(t)'] = {}
  <2>1. pc[t] = "collect" /\ ReclaimSlot(t)' = ReclaimSlot(t)
    BY <1>4 DEF Quiet, ReclaimSlot
  <2>2. held[u] \cap pending[t][ReclaimSlot(t)] = {}
    BY <2>1 DEF ReadersInv, CollectInv
  <2>3. held'[u] \subseteq held[u] /\ pending'[t][ReclaimSlot(t)] \subseteq pending[t][ReclaimSlot(t)]
    BY <1>0 DEF Quiet
  <2> QED  BY <2>1, <2>2, <2>3
<1>5. ReaderInv'
  BY <1>2 DEF ReaderInv
<1>6. PassedInv'
  BY <1>3 DEF PassedInv
<1>7. CollectInv'
  BY <1>4 DEF CollectInv
<1> QED  BY <1>5, <1>6, <1>7 DEF ReadersInv

\* A scan that goes on only past readers that announce the current epoch.
ScansOn(t) ==
    /\ UNCHANGED <<g_epoch, in_critical, local_epoch, slot_index, pending, g_retired, held, seen_epoch>>
    /\ Scanning(t) /\ pc'[t] # "collect"
    /\ \A v \in Threads \ {t} : pc'[v] = pc[v] /\ scan'[v] = scan[v] /\ seen_n'[v] = seen_n[v] /\ ctx'[v] = ctx[v]
    /\ \A u \in Threads : in_critical[u] /\ seen_epoch[t] = g_epoch /\ Awaits(t, u)
                              => Awaits(t, u)' \/ local_epoch[u] = g_epoch

LEMMA ScansOnKeeps ==
    ASSUME TypeOK, ReadersInv, NEW t \in Threads, ScansOn(t) PROVE ReadersInv'
<1>0. /\ (g_epoch - 1) % EBR_EPOCH_COUNT \in EpochSlots
      /\ (g_epoch - 1) % EBR_EPOCH_COUNT # g_epoch % EBR_EPOCH_COUNT
      /\ g_epoch \in Nat
  BY ModFacts DEF TypeOK
<1>1. \A n, s : InSlot(n, s)' <=> InSlot(n, s)
  BY DEF ScansOn, InSlot
<1>2. ASSUME NEW v \in Threads, v # t, NEW u \in Threads
      PROVE  (Scanning(v)' <=> Scanning(v)) /\ (Awaits(v, u)' <=> Awaits(v, u))
  BY <1>2 DEF ScansOn, Scanning, Awaits
<1>3. ASSUME NEW u \in Threads, in_critical'[u] PROVE (Fresh(u) \/ Old(u))'
  <2>1. CASE Fresh(u)
    BY <1>1, <2>1 DEF Fresh, ScansOn
  <2>2. CASE Old(u)
    <3>1. local_epoch[u] # g_epoch
      BY <2>2, <1>0 DEF Old, TypeOK
    <3>2. ASSUME NEW v \in Threads, Scanning(v)', seen_epoch'[v] = g_epoch' PROVE Awaits(v, u)'
      <4>1. CASE v # t
        BY <1>2, <2>2, <3>2, <4>1 DEF Old, ScansOn
      <4>2. CASE v = t
        BY <1>3, <2>2, <3>1, <3>2, <4>2 DEF Old, ScansOn
      <4> QED  BY <4>1, <4>2
    <3> QED  BY <1>1, <2>2, <3>2 DEF Old, ScansOn
  <2> QED  BY <1>3, <2>1, <2>2 DEF ReadersInv, ReaderInv, ScansOn
<1>4. ASSUME NEW v \in Threads, NEW u \in Threads, Scanning(v)', seen_epoch'[v] = g_epoch',
             in_critical'[u], ~ Awaits(v, u)'
      PROVE  held'[u] \cap pending'[v][(g_epoch' - 1) % EBR_EPOCH_COUNT] = {}
  <2>1. /\ seen_epoch[v] = g_epoch /\ in_critical[u] /\ held' = held /\ pending' = pending
        /\ g_epoch' = g_epoch /\ Scanning(v)
    BY <1>2, <1>4 DEF ScansOn
  <2>2. CASE ~ Awaits(v, u)
    BY <2>1, <2>2 DEF ReadersInv, PassedInv
  <2>3. CASE Awaits(v, u)
    <3>1. v = t /\ local_epoch[u] = g_epoch
      BY <1>2, <1>4, <2>1, <2>3 DEF ScansOn
    <3>2. Fresh(u)
      BY <1>0, <2>1, <3>1 DEF ReadersInv, ReaderInv, Old
    <3>3. \A n \in held[u] : ~ InSlot(n, (g_epoch - 1) % EBR_EPOCH_COUNT)
      BY <1>0, <3>2 DEF Fresh
    <3> QED  BY <2>1, <3>3 DEF InSlot
  <2> QED  BY <2>2, <2>3
<1>5. ASSUME NEW v \in Threads, NEW u \in Threads, pc'[v] = "collect"
      PROVE  held'[u] \cap pending'[v][ReclaimSlot(v)'] = {}
  <2>1. pc[v] = "collect" /\ held' = held /\ pending' = pending /\ ReclaimSlot(v)' = ReclaimSlot(v)
    BY <1>5 DEF ScansOn, ReclaimSlot
  <2> QED  BY <2>1 DEF ReadersInv, CollectInv
<1>6. ReaderInv'
  BY <1>3 DEF ReaderInv
<1>7. PassedInv'
  BY <1>4 DEF PassedInv
<1>8. CollectInv'
  BY <1>5 DEF CollectInv
<1> QED  BY <1>6, <1>7, <1>8 DEF ReadersInv

\* What is linked is in no list and not freed.
LEMMA LinkedAlone ==
    ASSUME TypeOK, OnceInv, NEW n \in linked
    PROVE  /\ n \notin freed /\ \A t \in Threads : n \notin garbage[t]
           /\ \A s \in EpochSlots : ~ InSlot(n, s)
<1>1. n \in Nodes /\ Once(n)
  BY DEF TypeOK, OnceInv
<1>2. n \notin freed /\ \A k, t, e : ~ Listed(n, k, t, e)
  BY <1>1 DEF Once
<1> QED  BY <1>2 DEF Listed, InSlot

LEMMA EnterKeeps ==
    ASSUME TypeOK, PhaseInv, OnceInv, ReadersInv, NEW t \in Threads, Enter(t) PROVE ReadersInv'
<1>0. /\ (g_epoch - 1) % EBR_EPOCH_COUNT \in EpochSlots
      /\ \A v \in Threads : ReclaimSlot(v) \in EpochSlots
  BY ModFacts DEF TypeOK, ReclaimSlot
<1>1. /\ UNCHANGED <<g_epoch, local_epoch, slot_index, pending, g_retired, seen_epoch, scan, seen_n, ctx>>
      /\ in_critical' = [in_critical EXCEPT ![t] = TRUE] /\ held' = [held EXCEPT ![t] = linked]
      /\ pc[t] \in {"enter", "idle"} /\ pc' = [pc EXCEPT ![t] = "critical"]
  BY DEF Enter, regVars, scanVars, freeVars, Goto
<1>2. held'[t] = linked /\ \A u \in Threads \ {t} : held'[u] = held[u] /\ in_critical'[u] = in_critical[u]
  BY <1>1 DEF TypeOK
<1>3. \A n, s : InSlot(n, s)' <=> InSlot(n, s)
  BY <1>1 DEF InSlot
<1>4. \A v \in Threads : /\ Scanning(v)' <=> Scanning(v)
                         /\ pc'[v] = "collect" <=> pc[v] = "collect"
                         /\ pc'[v] = "scan" <=> pc[v] = "scan"
  BY <1>1 DEF TypeOK, Scanning
<1>5. \A v, u \in Threads : Awaits(v, u)' <=> Awaits(v, u)
  BY <1>1, <1>4 DEF Awaits
<1>6. ASSUME NEW u \in Threads, in_critical'[u] PROVE (Fresh(u) \/ Old(u))'
  <2>1. CASE u = t
    BY <1>2, <1>3, <2>1, LinkedAlone DEF Fresh
  <2>2. CASE u # t
    <3>1. Fresh(u) \/ Old(u)
      BY <1>2, <1>6, <2>2 DEF ReadersInv, ReaderInv
    <3>2. Fresh(u) => Fresh(u)'
      BY <1>1, <1>2, <1>3, <2>2 DEF Fresh
    <3>3. Old(u) => Old(u)'
      BY <1>1, <1>2, <1>3, <1>4, <1>5, <2>2 DEF Old
    <3> QED  BY <3>1, <3>2, <3>3
  <2> QED  BY <2>1, <2>2
<1>7. ASSUME NEW v \in Threads, NEW u \in Threads, Scanning(v)', seen_epoch'[v] = g_epoch',
             in_critical'[u], ~ Awaits(v, u)'
      PROVE  held'[u] \cap pending'[v][(g_epoch' - 1) % EBR_EPOCH_COUNT] = {}
  <2>1. CASE u = t
    BY <1>0, <1>1, <1>2, <2>1, LinkedAlone DEF InSlot
  <2>2. CASE u # t
    BY <1>1, <1>2, <1>4, <1>5, <1>7, <2>2 DEF ReadersInv, PassedInv
  <2> QED  BY <2>1, <2>2
<1>8. ASSUME NEW v \in Threads, NEW u \in Threads, pc'[v] = "collect"
      PROVE  held'[u] \cap pending'[v][ReclaimSlot(v)'] = {}
  <2>0. ReclaimSlot(v)' = ReclaimSlot(v) /\ pc[v] = "collect"
    BY <1>1, <1>4, <1>8 DEF ReclaimSlot
  <2>1. CASE u = t
    BY <1>0, <1>1, <1>2, <2>0, <2>1, LinkedAlone DEF InSlot
  <2>2. CASE u # t
    BY <1>1, <1>2, <2>0, <2>2 DEF ReadersInv, CollectInv
  <2> QED  BY <2>1, <2>2
<1>9. ReaderInv'
  BY <1>6 DEF ReaderInv
<1>10. PassedInv'
  BY <1>7 DEF PassedInv
<1>11. CollectInv'
  BY <1>8 DEF CollectInv
<1> QED  BY <1>9, <1>10, <1>11 DEF ReadersInv

LEMMA RetireKeeps ==
    ASSUME TypeOK, ReadersInv, NEW t \in Threads, Retire(t) PROVE ReadersInv'
<1>0. /\ (g_epoch - 1) % EBR_EPOCH_COUNT \in EpochSlots
      /\ (g_epoch - 1) % EBR_EPOCH_COUNT # g_epoch % EBR_EPOCH_COUNT
      /\ \A v \in Threads : ReclaimSlot(v) \in EpochSlots
  BY ModFacts DEF TypeOK, ReclaimSlot
<1>1. PICK s0 \in EpochSlots : s0 = g_epoch % EBR_EPOCH_COUNT /\ RetireMoves(t, s0)
  BY RetireEffect, ModFacts
<1>2. /\ UNCHANGED <<g_epoch, in_critical, local_epoch, slot_index, held, seen_epoch, scan, seen_n, ctx, g_retired>>
      /\ pc[t] = "retire" /\ pc' = [pc EXCEPT ![t] = "critical"]
  BY DEF Retire, regVars, scanVars, Goto
<1>3. \A n, s : s \in EpochSlots /\ InSlot(n, s)' => InSlot(n, s) \/ s = s0
  BY <1>1, <1>2 DEF InSlot, RetireMoves
<1>4. \A v \in Threads : /\ Scanning(v)' <=> Scanning(v)
                         /\ pc'[v] = "collect" <=> pc[v] = "collect"
                         /\ pc'[v] = "scan" <=> pc[v] = "scan"
                         /\ pc[v] = "collect" => v # t
  BY <1>2 DEF TypeOK, Scanning
<1>5. \A v, u \in Threads : Awaits(v, u)' <=> Awaits(v, u)
  BY <1>2, <1>4 DEF Awaits
<1>6. ASSUME NEW u \in Threads, in_critical'[u] PROVE (Fresh(u) \/ Old(u))'
  <2>1. Fresh(u) \/ Old(u)
    BY <1>2, <1>6 DEF ReadersInv, ReaderInv
  <2>2. Fresh(u) => Fresh(u)'
    BY <1>1, <1>2, <1>3 DEF Fresh
  <2>3. Old(u) => Old(u)'
    BY <1>1, <1>2, <1>3, <1>4, <1>5 DEF Old
  <2> QED  BY <2>1, <2>2, <2>3
<1>7. ASSUME NEW v \in Threads, NEW u \in Threads, Scanning(v)', seen_epoch'[v] = g_epoch',
             in_critical'[u], ~ Awaits(v, u)'
      PROVE  held'[u] \cap pending'[v][(g_epoch' - 1) % EBR_EPOCH_COUNT] = {}
  <2>1. pending'[v][(g_epoch - 1) % EBR_EPOCH_COUNT] = pending[v][(g_epoch - 1) % EBR_EPOCH_COUNT]
    BY <1>0, <1>1 DEF RetireMoves
  <2> QED  BY <1>2, <1>4, <1>5, <1>7, <2>1 DEF ReadersInv, PassedInv
<1>8. ASSUME NEW v \in Threads, NEW u \in Threads, pc'[v] = "collect"
      PROVE  held'[u] \cap pending'[v][ReclaimSlot(v)'] = {}
  <2>1. ReclaimSlot(v)' = ReclaimSlot(v) /\ pc[v] = "collect" /\ v # t
    BY <1>2, <1>4, <1>8 DEF ReclaimSlot
  <2>2. pending'[v][ReclaimSlot(v)] = pending[v][ReclaimSlot(v)]
    BY <1>0, <1>1, <2>1 DEF RetireMoves
  <2> QED  BY <1>2, <2>1, <2>2 DEF ReadersInv, CollectInv
<1>9. ReaderInv'
  BY <1>6 DEF ReaderInv
<1>10. PassedInv'
  BY <1>7 DEF PassedInv
<1>11. CollectInv'
  BY <1>8 DEF CollectInv
<1> QED  BY <1>9, <1>10, <1>11 DEF ReadersInv

\* A reader is in a slot below the number that a scan starts with.
LEMMA ReaderSlot ==
    ASSUME TypeOK, SlotInv, PhaseInv, NEW u \in Threads, in_critical[u]
    PROVE  slot_index[u] \in Nat /\ 0 <= slot_index[u] /\ slot_index[u] < g_n_threads
<1>1. pc[u] \in {"critical", "retire"}
  BY DEF PhaseInv, Phase
<1>2. slot_index[u] # NoSlot /\ slot_index[u] \in Issued /\ g_n_threads \in Nat
  BY <1>1 DEF SlotInv
<1> QED  BY <1>2 DEF Issued

\* A collection awaits every reader when it starts.
LEMMA GcBeginKeeps ==
    ASSUME TypeOK, SlotInv, PhaseInv, ReadersInv, NEW t \in Threads, GcBegin(t), ~ GiveUp(t)
    PROVE  ReadersInv'
<1>1. /\ UNCHANGED <<g_epoch, in_critical, local_epoch, slot_index, held, pending, g_retired, scan, ctx>>
      /\ seen_epoch' = [seen_epoch EXCEPT ![t] = g_epoch]
      /\ seen_n' = [seen_n EXCEPT ![t] = g_n_threads]
      /\ pc[t] = "gc" /\ pc' = [pc EXCEPT ![t] = "scan"]
  BY DEF GcBegin, regVars, listVars, syncVars, freeVars, Goto
<1>2. scan[t] = 0
  BY <1>1 DEF PhaseInv, Phase, Scanning
<1>3. \A n, s : InSlot(n, s)' <=> InSlot(n, s)
  BY <1>1 DEF InSlot
<1>4. ASSUME NEW u \in Threads, in_critical[u] PROVE Awaits(t, u)'
  <2>1. slot_index[u] \in Nat /\ 0 <= slot_index[u] /\ slot_index[u] < g_n_threads
    BY <1>4, ReaderSlot
  <2>2. scan'[t] = 0 /\ seen_n'[t] = g_n_threads /\ pc'[t] = "scan" /\ slot_index' = slot_index
    BY <1>1, <1>2 DEF TypeOK
  <2> QED  BY <2>1, <2>2 DEF Awaits
<1>5. ASSUME NEW v \in Threads, v # t
      PROVE  /\ Scanning(v)' <=> Scanning(v)
             /\ pc'[v] = pc[v] /\ seen_epoch'[v] = seen_epoch[v]
             /\ \A u \in Threads : Awaits(v, u)' <=> Awaits(v, u)
  BY <1>1, <1>5 DEF TypeOK, Scanning, Awaits
<1>6. ASSUME NEW u \in Threads, in_critical'[u] PROVE (Fresh(u) \/ Old(u))'
  <2>1. in_critical[u] /\ (Fresh(u) \/ Old(u))
    BY <1>1, <1>6 DEF ReadersInv, ReaderInv
  <2>2. Fresh(u) => Fresh(u)'
    BY <1>1, <1>3 DEF Fresh
  <2>3. ASSUME Old(u), NEW v \in Threads, Scanning(v)', seen_epoch'[v] = g_epoch' PROVE Awaits(v, u)'
    <3>1. CASE v = t
      BY <1>4, <2>1, <3>1
    <3>2. CASE v # t
      BY <1>1, <1>5, <2>3, <3>2 DEF Old
    <3> QED  BY <3>1, <3>2
  <2>4. Old(u) => Old(u)'
    BY <1>1, <1>3, <2>3 DEF Old
  <2> QED  BY <2>1, <2>2, <2>4
<1>7. ASSUME NEW v \in Threads, NEW u \in Threads, Scanning(v)', seen_epoch'[v] = g_epoch',
             in_critical'[u], ~ Awaits(v, u)'
      PROVE  held'[u] \cap pending'[v][(g_epoch' - 1) % EBR_EPOCH_COUNT] = {}
  <2>1. v # t
    BY <1>1, <1>4, <1>7
  <2> QED  BY <1>1, <1>5, <1>7, <2>1 DEF ReadersInv, PassedInv
<1>8. ASSUME NEW v \in Threads, NEW u \in Threads, pc'[v] = "collect"
      PROVE  held'[u] \cap pending'[v][ReclaimSlot(v)'] = {}
  <2>1. v # t
    BY <1>1, <1>8 DEF TypeOK
  <2>2. ReclaimSlot(v)' = ReclaimSlot(v) /\ pc[v] = "collect"
    BY <1>5, <1>8, <2>1 DEF ReclaimSlot
  <2> QED  BY <1>1, <2>2 DEF ReadersInv, CollectInv
<1>9. ReaderInv'
  BY <1>6 DEF ReaderInv
<1>10. PassedInv'
  BY <1>7 DEF PassedInv
<1>11. CollectInv'
  BY <1>8 DEF CollectInv
<1> QED  BY <1>9, <1>10, <1>11 DEF ReadersInv

\* Going on to the next context, past one that is not of an awaited reader.
LEMMA NextKeeps ==
    ASSUME TypeOK, SlotInv, PhaseInv, NEW t \in Threads, Scanning(t), NextContext(t),
           UNCHANGED <<g_epoch, in_critical, local_epoch, slot_index, pending, g_retired, held>>,
           \A u \in Threads : in_critical[u] /\ seen_epoch[t] = g_epoch /\ slot_index[u] = scan[t]
                                  => local_epoch[u] = g_epoch \/ ~ (pc[t] = "scan" \/ ctx[t] = u)
    PROVE  ScansOn(t)
<1>1. /\ scan'[t] = scan[t] + 1 /\ pc'[t] = "scan" /\ seen_n'[t] = seen_n[t]
      /\ UNCHANGED seen_epoch
      /\ \A v \in Threads \ {t} :
            pc'[v] = pc[v] /\ scan'[v] = scan[v] /\ seen_n'[v] = seen_n[v] /\ ctx'[v] = ctx[v]
  BY DEF NextContext, Goto, TypeOK
<1>2. ASSUME NEW u \in Threads, in_critical[u], seen_epoch[t] = g_epoch, Awaits(t, u),
             local_epoch[u] # g_epoch
      PROVE  Awaits(t, u)'
  <2>1. slot_index[u] \in Nat /\ scan[t] \in Nat /\ seen_n[t] \in Nat
    BY <1>2, ReaderSlot DEF TypeOK
  <2>2. slot_index[u] # scan[t] /\ scan[t] <= slot_index[u] /\ slot_index[u] < seen_n[t]
    BY <1>2 DEF Awaits
  <2> QED  BY <1>1, <2>1, <2>2 DEF Awaits
<1> QED  BY <1>1, <1>2 DEF ScansOn

LEMMA ScanKeeps ==
    ASSUME TypeOK, SlotInv, PhaseInv, InOwnSlot, NEW t \in Threads,
           ScanContext(t) \/ ScanCritical(t) \/ (ScanEpoch(t) /\ ~ GiveUp(t))
    PROVE  ScansOn(t)
<1>1. ASSUME ScanContext(t) PROVE ScansOn(t)
  <2>1. /\ UNCHANGED <<g_epoch, in_critical, local_epoch, slot_index, pending, g_retired, held>>
        /\ pc[t] = "scan" /\ Scanning(t)
    BY <1>1 DEF ScanContext, regVars, listVars, syncVars, freeVars, Scanning
  <2>2. CASE g_contexts[scan[t]] = NoThread
    <3>1. \A u \in Threads : in_critical[u] => slot_index[u] # scan[t]
      BY <2>2, EpochAssumption DEF InOwnSlot
    <3>2. NextContext(t)
      BY <1>1, <2>2 DEF ScanContext
    <3> QED  BY <2>1, <3>1, <3>2, NextKeeps
  <2>3. CASE g_contexts[scan[t]] # NoThread
    <3>1. /\ ctx' = [ctx EXCEPT ![t] = g_contexts[scan[t]]]
          /\ pc' = [pc EXCEPT ![t] = "scan_critical"] /\ UNCHANGED <<seen_epoch, seen_n, scan>>
      BY <1>1, <2>3 DEF ScanContext, Goto
    <3>2. \A u \in Threads : in_critical[u] /\ slot_index[u] = scan[t] => ctx'[t] = u
      BY <3>1 DEF InOwnSlot, TypeOK
    <3>3. \A u \in Threads : in_critical[u] /\ Awaits(t, u) => Awaits(t, u)'
      BY <2>1, <3>1, <3>2 DEF Awaits
    <3>4. pc'[t] # "collect" /\ \A v \in Threads \ {t} :
             pc'[v] = pc[v] /\ scan'[v] = scan[v] /\ seen_n'[v] = seen_n[v] /\ ctx'[v] = ctx[v]
      BY <3>1 DEF TypeOK
    <3> QED  BY <2>1, <3>1, <3>3, <3>4 DEF ScansOn
  <2> QED  BY <2>2, <2>3
<1>2. ASSUME ScanCritical(t) PROVE ScansOn(t)
  <2>1. /\ UNCHANGED <<g_epoch, in_critical, local_epoch, slot_index, pending, g_retired, held>>
        /\ pc[t] = "scan_critical" /\ Scanning(t)
    BY <1>2 DEF ScanCritical, regVars, listVars, syncVars, freeVars, Scanning
  <2>2. CASE NextContext(t) /\ (~ in_critical[ctx[t]] \/ Gone(ctx[t]))
    <3>1. ctx[t] \in Threads
      BY <2>1 DEF PhaseInv, Phase
    <3>2. ~ in_critical[ctx[t]]
      BY <2>2, <3>1 DEF PhaseInv, Phase, Gone
    <3> QED  BY <2>1, <2>2, <3>2, NextKeeps
  <2>3. CASE Goto(t, "scan_epoch") /\ UNCHANGED <<seen_epoch, scanVars>>
    <3>1. pc' = [pc EXCEPT ![t] = "scan_epoch"] /\ UNCHANGED <<seen_epoch, seen_n, scan, ctx>>
      BY <2>3 DEF Goto, scanVars
    <3>2. \A u \in Threads : Awaits(t, u) => Awaits(t, u)'
      BY <2>1, <3>1 DEF Awaits
    <3>3. pc'[t] # "collect" /\ \A v \in Threads \ {t} : pc'[v] = pc[v]
      BY <3>1 DEF TypeOK
    <3> QED  BY <2>1, <3>1, <3>2, <3>3 DEF ScansOn
  <2> QED  BY <1>2, <2>2, <2>3 DEF ScanCritical
<1>3. ASSUME ScanEpoch(t), ~ GiveUp(t) PROVE ScansOn(t)
  <2>1. /\ UNCHANGED <<g_epoch, in_critical, local_epoch, slot_index, pending, g_retired, held>>
        /\ pc[t] = "scan_epoch" /\ Scanning(t)
        /\ NextContext(t) /\ (local_epoch[ctx[t]] = seen_epoch[t] \/ Gone(ctx[t]))
    BY <1>3 DEF ScanEpoch, regVars, listVars, syncVars, freeVars, Scanning
  <2>2. ctx[t] \in Threads
    BY <2>1 DEF PhaseInv, Phase
  <2>3. in_critical[ctx[t]] => local_epoch[ctx[t]] = seen_epoch[t]
    BY <2>1, <2>2 DEF PhaseInv, Phase, Gone
  <2> QED  BY <2>1, <2>3, NextKeeps
<1> QED  BY <1>1, <1>2, <1>3

\* A collection that ends the epoch has passed every reader.
LEMMA AdvanceKeeps ==
    ASSUME TypeOK, SlotInv, PhaseInv, ReadersInv, NEW t \in Threads, Advance(t), g_epoch = seen_epoch[t]
    PROVE  ReadersInv'
<1>1. /\ UNCHANGED <<in_critical, local_epoch, slot_index, held, pending, g_retired, seen_epoch>>
      /\ g_epoch' = g_epoch + 1 /\ pc[t] = "scan" /\ scan[t] = seen_n[t] /\ Scanning(t)
      /\ pc' = [pc EXCEPT ![t] = "collect"]
  BY DEF Advance, regVars, listVars, syncVars, freeVars, Goto, Scanning
<1>2. g_epoch \in Nat /\ EBR_EPOCH_COUNT = 3 /\ (g_epoch - 1) % 3 \in EpochSlots
  BY ModFacts DEF TypeOK
<1>3. \A n, s : InSlot(n, s)' <=> InSlot(n, s)
  BY <1>1 DEF InSlot
<1>4. ASSUME NEW u \in Threads, in_critical[u]
      PROVE  Fresh(u) /\ held[u] \cap pending[t][(g_epoch - 1) % 3] = {} /\ local_epoch[u] <= g_epoch
  <2>1. ~ Awaits(t, u)
    <3>1. slot_index[u] \in Nat /\ scan[t] \in Nat
      BY <1>4, ReaderSlot DEF TypeOK
    <3> QED  BY <1>1, <3>1 DEF Awaits
  <2>2. Fresh(u)
    BY <1>1, <1>4, <2>1 DEF ReadersInv, ReaderInv, Old
  <2>3. held[u] \cap pending[t][(g_epoch - 1) % 3] = {}
    BY <1>1, <1>2, <1>4, <2>1 DEF ReadersInv, PassedInv
  <2> QED  BY <2>2, <2>3 DEF PhaseInv, Phase
<1>5. \A v \in Threads : seen_epoch'[v] # g_epoch'
  <2> TAKE v \in Threads
  <2>1. seen_epoch[v] <= g_epoch /\ seen_epoch[v] \in Nat
    BY DEF PhaseInv, Phase, TypeOK
  <2> QED  BY <1>1, <1>2, <2>1
<1>6. ASSUME NEW u \in Threads, in_critical'[u] PROVE Old(u)'
  <2>1. in_critical[u] /\ Fresh(u) /\ local_epoch[u] <= g_epoch /\ local_epoch[u] \in Nat
    BY <1>1, <1>4, <1>6 DEF TypeOK
  <2>2. local_epoch'[u] < g_epoch'
    BY <1>1, <1>2, <2>1
  <2>3. (g_epoch' - 1) % 3 = g_epoch % 3
    BY <1>1, <1>2
  <2>4. \A n \in held'[u], s \in EpochSlots : InSlot(n, s)' =>
           s \in {g_epoch' % EBR_EPOCH_COUNT, (g_epoch' - 1) % EBR_EPOCH_COUNT}
    BY <1>1, <1>2, <1>3, <2>1, <2>3 DEF Fresh
  <2> QED  BY <1>5, <2>2, <2>4 DEF Old
<1>7. ASSUME NEW v \in Threads, NEW u \in Threads, pc'[v] = "collect"
      PROVE  held'[u] \cap pending'[v][ReclaimSlot(v)'] = {}
  <2>1. ReclaimSlot(v)' = ReclaimSlot(v)
    BY <1>1 DEF ReclaimSlot
  <2>2. CASE v # t
    <3>1. pc[v] = "collect"
      BY <1>1, <1>7, <2>2 DEF TypeOK
    <3> QED  BY <1>1, <2>1, <3>1 DEF ReadersInv, CollectInv
  <2>3. CASE v = t
    <3>1. ReclaimSlot(v)' = (g_epoch - 1) % 3
      BY <1>2, <2>1, <2>3 DEF ReclaimSlot
    <3>2. CASE in_critical[u]
      BY <1>1, <1>4, <2>3, <3>1, <3>2
    <3>3. CASE ~ in_critical[u]
      BY <1>1, <3>3 DEF PhaseInv, Phase
    <3> QED  BY <3>2, <3>3
  <2> QED  BY <2>2, <2>3
<1>8. ReaderInv'
  BY <1>6 DEF ReaderInv
<1>9. PassedInv'
  BY <1>5 DEF PassedInv
<1>10. CollectInv'
  BY <1>7 DEF CollectInv
<1> QED  BY <1>8, <1>9, <1>10 DEF ReadersInv

\* The other steps.
LEMMA QuietSteps ==
    ASSUME TypeOK, SlotInv, PhaseInv, NEW t \in Threads, Step(t), ~ Enter(t), ~ Retire(t),
           ~ ScanContext(t), ~ ScanCritical(t), GcBegin(t) \/ ScanEpoch(t) => GiveUp(t),
           ~ (Advance(t) /\ g_epoch = seen_epoch[t])
    PROVE  Quiet
<1>0. Phase(t) /\ \A u \in Threads : Phase(u)
  BY DEF PhaseInv
<1>1. ASSUME NEW u \in Threads, u # t
      PROVE  /\ in_critical'[u] = in_critical[u] /\ local_epoch'[u] = local_epoch[u]
             /\ pending'[u] = pending[u] /\ pc'[u] = pc[u] /\ seen_epoch'[u] = seen_epoch[u]
             /\ seen_n'[u] = seen_n[u] /\ scan'[u] = scan[u] /\ ctx'[u] = ctx[u]
             /\ held'[u] = held[u]
  BY <1>1, Frame
<1>2. \A u \in Threads : u # t => slot_index'[u] = slot_index[u]
  BY DEF Step, SlotInv, PopSlot, PopSlotCAS, Publish, Unlink, Exit, ReadEpoch, Refresh, GcBegin,
         ScanEpoch, Advance, Collect, Reclaim, Reclaimed, Sync, SyncReturn, BeginSync, Unregister, PushSlot,
         HandOver, Destroyed, regVars
<1>3. g_epoch' = g_epoch
  BY DEF Step, PopSlot, PopSlotCAS, Publish, Unlink, Exit, ReadEpoch, Refresh, GcBegin, ScanEpoch,
         Advance, Collect, Reclaim, Reclaimed, Sync, SyncReturn, BeginSync, Unregister, PushSlot, HandOver,
         Destroyed
<1>4. /\ held'[t] \subseteq held[t]
      /\ in_critical'[t] => /\ in_critical[t] /\ local_epoch'[t] = local_epoch[t]
                            /\ slot_index'[t] = slot_index[t]
      /\ ~ Scanning(t)' /\ pc'[t] # "collect"
  <2> USE DEF regVars, countVars, scanVars, listVars, syncVars, freeVars, Goto, Scanning, TypeOK
  <2>1. CASE PopSlot(t) \/ PopSlotCAS(t) \/ Publish(t)
    BY <1>0, <2>1 DEF Phase, PopSlot, PopSlotCAS, Publish
  <2>2. CASE (\E n \in Nodes : Unlink(t, n)) \/ Exit(t)
    BY <1>0, <2>2 DEF Phase, Unlink, Exit
  <2>3. CASE ReadEpoch(t) \/ Refresh(t)
    BY <1>0, <2>3 DEF Phase, ReadEpoch, Refresh
  <2>4. CASE GcBegin(t) \/ ScanEpoch(t)
    BY <1>0, <2>4 DEF Phase, GcBegin, ScanEpoch, GiveUp, EndScan
  <2>5. CASE Advance(t)
    BY <1>0, <2>5 DEF Phase, Advance, GiveUp, EndScan
  <2>6. CASE Collect(t) \/ Reclaim(t) \/ Reclaimed(t)
    BY <1>0, <2>6 DEF Phase, Collect, Reclaim, Reclaimed
  <2>7. CASE Sync(t) \/ SyncReturn(t)
    BY <1>0, <2>7 DEF Phase, Sync, SyncReturn, BeginSync
  <2>8. CASE Unregister(t) \/ PushSlot(t) \/ HandOver(t) \/ Destroyed(t)
    BY <1>0, <2>8 DEF Phase, Unregister, PushSlot, HandOver, Destroyed
  <2> QED  BY <2>1, <2>2, <2>3, <2>4, <2>5, <2>6, <2>7, <2>8 DEF Step
<1>5. /\ \A n, s : InSlot(n, s)' /\ s \in EpochSlots => InSlot(n, s)
      /\ \A v \in Threads : \A s \in EpochSlots : pending'[v][s] \subseteq pending[v][s]
  <2>1. CASE Collect(t)
    <3>1. PICK s0 \in EpochSlots : CollectMoves(t, s0)
      BY <2>1, CollectEffect
    <3>2. /\ \A v \in Threads : \A s \in EpochSlots : pending'[v][s] \subseteq pending[v][s]
          /\ \A s \in EpochSlots : g_retired'[s] \subseteq g_retired[s]
      BY <3>1 DEF CollectMoves
    <3> QED  BY <3>2 DEF InSlot
  <2>2. CASE HandOver(t)
    <3>1. PICK s0 \in EpochSlots, m \in Nodes : HandOverMoves(t, s0, m)
      BY <2>2, HandOverEffect
    <3>2. \A v \in Threads : \A s \in EpochSlots : pending'[v][s] \subseteq pending[v][s]
      BY <3>1 DEF HandOverMoves
    <3>3. \A s \in EpochSlots :
             g_retired'[s] = g_retired[s] \/ (s = s0 /\ g_retired'[s] = g_retired[s] \cup {m})
      BY <3>1 DEF HandOverMoves
    <3>4. InSlot(m, s0)
      BY <3>1 DEF HandOverMoves, InSlot
    <3> QED  BY <3>2, <3>3, <3>4 DEF InSlot
  <2>3. CASE (\E n \in Nodes : Unlink(t, n)) \/ Reclaim(t)
    BY <2>3 DEF Unlink, Reclaim, freeVars, InSlot
  <2>4. CASE ~ Collect(t) /\ ~ HandOver(t) /\ ~ ((\E n \in Nodes : Unlink(t, n)) \/ Reclaim(t))
    BY <2>4, ListFrame DEF InSlot
  <2> QED  BY <2>1, <2>2, <2>3, <2>4
<1> QED  BY <1>1, <1>2, <1>3, <1>4, <1>5 DEF Quiet

LEMMA ReadersNext ==
    TypeOK /\ SlotInv /\ PhaseInv /\ OnceInv /\ InOwnSlot /\ ReadersInv /\ [Next]_vars => ReadersInv'
<1> SUFFICES ASSUME TypeOK, SlotInv, PhaseInv, OnceInv, InOwnSlot, ReadersInv, [Next]_vars
             PROVE  ReadersInv'
  OBVIOUS
<1>1. ASSUME UNCHANGED vars PROVE ReadersInv'
  <2>1. Quiet
    BY <1>1 DEF vars, regVars, scanVars, listVars, syncVars, freeVars, Quiet, InSlot, Scanning
  <2> QED  BY <2>1, QuietKeeps
<1>2. ASSUME NEW t \in Threads, Step(t) PROVE ReadersInv'
  <2>1. CASE Enter(t) \/ Retire(t)
    BY <2>1, EnterKeeps, RetireKeeps
  <2>2. CASE GcBegin(t) /\ ~ GiveUp(t)
    BY <2>2, GcBeginKeeps
  <2>3. CASE ScanContext(t) \/ ScanCritical(t) \/ (ScanEpoch(t) /\ ~ GiveUp(t))
    BY <2>3, ScanKeeps, ScansOnKeeps
  <2>4. CASE Advance(t) /\ g_epoch = seen_epoch[t]
    BY <2>4, AdvanceKeeps
  <2>5. CASE /\ ~ Enter(t) /\ ~ Retire(t) /\ ~ ScanContext(t) /\ ~ ScanCritical(t)
             /\ (GcBegin(t) \/ ScanEpoch(t) => GiveUp(t))
             /\ ~ (Advance(t) /\ g_epoch = seen_epoch[t])
    BY <1>2, <2>5, QuietSteps, QuietKeeps
  <2> QED  BY <2>1, <2>2, <2>3, <2>4, <2>5
<1> QED  BY <1>1, <1>2 DEF Next, Terminated

\* What is being freed, and what is freed.
LEMMA SafeNext ==
    TypeOK /\ PhaseInv /\ OnceInv /\ ReadersInv /\ GarbageInv /\ KeptInv /\ [Next]_vars
        => GarbageInv' /\ KeptInv'
<1> SUFFICES ASSUME TypeOK, PhaseInv, OnceInv, ReadersInv, GarbageInv, KeptInv, [Next]_vars
             PROVE  GarbageInv' /\ KeptInv'
  OBVIOUS
<1>1. ASSUME UNCHANGED <<garbage, freed, overtaken>>,
             \A u \in Threads : held'[u] \subseteq held[u]
      PROVE  GarbageInv' /\ KeptInv'
  <2>1. GarbageInv'
    BY <1>1 DEF GarbageInv
  <2>2. KeptInv'
    BY <1>1 DEF KeptInv
  <2> QED  BY <2>1, <2>2
<1>2. ASSUME NEW t \in Threads, Enter(t) PROVE GarbageInv' /\ KeptInv'
  <2>1. /\ UNCHANGED <<garbage, freed, overtaken>> /\ held'[t] = linked
        /\ \A u \in Threads \ {t} : held'[u] = held[u]
    BY <1>2 DEF Enter, freeVars, TypeOK
  <2>2. \A v \in Threads : held'[t] \cap garbage[v] = {} /\ held'[t] \cap freed = {}
    BY <2>1, LinkedAlone
  <2>3. GarbageInv'
    BY <2>1, <2>2 DEF GarbageInv
  <2>4. KeptInv'
    BY <2>1, <2>2 DEF KeptInv
  <2> QED  BY <2>3, <2>4
<1>3. ASSUME NEW t \in Threads, Collect(t) PROVE GarbageInv' /\ KeptInv'
  <2>1. PICK s \in EpochSlots : s = (seen_epoch[t] - 1) % 3 /\ s = ReclaimSlot(t) /\ CollectMoves(t, s)
    BY <1>3, CollectEffect
  <2>2. /\ pc[t] = "collect" /\ overtaken \subseteq overtaken'
        /\ g_epoch > seen_epoch[t] + 1 => g_retired[s] \subseteq overtaken'
    BY <1>3, <2>1 DEF Collect
  <2>3. g_epoch \in Nat /\ seen_epoch[t] \in Nat /\ seen_epoch[t] < g_epoch /\ EBR_EPOCH_COUNT = 3
    BY <2>2, ModFacts DEF TypeOK, PhaseInv, Phase
  <2>4. ASSUME NEW u \in Threads PROVE held[u] \cap (g_retired[s] \cup pending[t][s]) \subseteq overtaken'
    <3>1. held[u] \cap pending[t][s] = {}
      BY <2>1, <2>2 DEF ReadersInv, CollectInv
    <3>2. CASE ~ in_critical[u]
      BY <3>2 DEF PhaseInv, Phase
    <3>3. CASE in_critical[u] /\ g_epoch = seen_epoch[t] + 1
      <4>1. s # g_epoch % 3 /\ s # (g_epoch - 1) % 3
        BY <2>1, <2>3, <3>3
      <4>2. \A n \in held[u] : ~ InSlot(n, s)
        BY <2>3, <3>3, <4>1 DEF ReadersInv, ReaderInv, Fresh, Old
      <4> QED  BY <3>1, <4>2 DEF InSlot
    <3>4. CASE g_epoch > seen_epoch[t] + 1
      BY <2>2, <3>1, <3>4
    <3> QED  BY <2>3, <3>2, <3>3, <3>4
  <2>5. GarbageInv'
    BY <2>1, <2>2, <2>4 DEF GarbageInv, CollectMoves
  <2>6. KeptInv'
    BY <2>1, <2>2 DEF KeptInv, CollectMoves
  <2> QED  BY <2>5, <2>6
<1>4. ASSUME NEW t \in Threads, Reclaim(t) PROVE GarbageInv' /\ KeptInv'
  <2>1. PICK m \in garbage[t] : freed' = freed \cup {m} /\ garbage' = [garbage EXCEPT ![t] = @ \ {m}]
    BY <1>4 DEF Reclaim
  <2>2. UNCHANGED <<held, overtaken>>
    BY <1>4 DEF Reclaim, listVars
  <2>3. \A v \in Threads : garbage'[v] \subseteq garbage[v]
    BY <2>1 DEF TypeOK
  <2>4. \A u \in Threads : m \in held[u] => m \in overtaken
    BY <2>1 DEF GarbageInv
  <2>5. GarbageInv'
    BY <2>2, <2>3 DEF GarbageInv
  <2>6. KeptInv'
    BY <2>1, <2>2, <2>4 DEF KeptInv
  <2> QED  BY <2>5, <2>6
<1>5. ASSUME NEW t \in Threads, Step(t), ~ Enter(t), ~ Collect(t), ~ Reclaim(t)
      PROVE  GarbageInv' /\ KeptInv'
  <2>1. UNCHANGED <<garbage, freed, overtaken>>
    BY <1>5 DEF Step, PopSlot, PopSlotCAS, Publish, Unlink, Retire, Exit, ReadEpoch, Refresh, GcBegin,
       ScanContext, ScanCritical, ScanEpoch, Advance, Reclaimed, Sync, SyncReturn, BeginSync, Unregister,
       PushSlot, HandOver, Destroyed, freeVars
  <2>2. \A u \in Threads : held'[u] \subseteq held[u]
    <3>1. CASE Exit(t)
      BY <3>1 DEF Exit, TypeOK
    <3>2. CASE ~ Exit(t)
      BY <1>5, <3>2 DEF Step, PopSlot, PopSlotCAS, Publish, Unlink, Retire, ReadEpoch, Refresh,
         GcBegin, ScanContext, ScanCritical, ScanEpoch, Advance, Reclaimed, Sync, SyncReturn, BeginSync,
         Unregister, PushSlot, HandOver, Destroyed, listVars
    <3> QED  BY <3>1, <3>2
  <2> QED  BY <1>1, <2>1, <2>2
<1>6. ASSUME UNCHANGED vars PROVE GarbageInv' /\ KeptInv'
  BY <1>1, <1>6 DEF vars, listVars, syncVars, freeVars
<1> QED  BY <1>2, <1>3, <1>4, <1>5, <1>6 DEF Next, Terminated

SafeInv == StackInv /\ Published /\ ReadersInv /\ GarbageInv /\ KeptInv

LEMMA Registered == PhaseInv /\ Published => InOwnSlot
<1> SUFFICES ASSUME PhaseInv, Published, NEW t \in Threads, in_critical[t]
             PROVE  g_contexts[slot_index[t]] = t
  BY DEF InOwnSlot
<1>1. pc[t] \in {"critical", "retire"}
  BY DEF PhaseInv, Phase
<1> QED  BY <1>1 DEF Published, Owns

\* Until an outdated next is swapped in, the free slots are a stack, the scans find
\* every reader, and no reader loses a node.
LEMMA SafeInvariance == Spec => [](aba \/ SafeInv)
<1>1. Init => SafeInv
  <2>1. Init => ReadersInv
    BY DEF Init, ReadersInv, ReaderInv, PassedInv, CollectInv, Scanning
  <2>2. Init => GarbageInv /\ KeptInv
    BY DEF Init, GarbageInv, KeptInv
  <2>3. Init => StackInv /\ Published
    BY DEF Init, StackInv, Published, Owns
  <2> QED  BY <2>1, <2>2, <2>3 DEF SafeInv
<1>2. ListInv /\ (aba \/ SafeInv) /\ [Next]_vars => aba' \/ SafeInv'
  <2> SUFFICES ASSUME ListInv, aba \/ SafeInv, [Next]_vars, ~ aba' PROVE SafeInv'
    OBVIOUS
  <2>1. SafeInv
    BY AbaStays
  <2>2. StackInv' /\ Published'
    BY <2>1, StackNext DEF SafeInv, ListInv
  <2>3. ReadersInv'
    BY <2>1, Registered, ReadersNext DEF SafeInv, ListInv
  <2>4. GarbageInv' /\ KeptInv'
    BY <2>1, SafeNext DEF SafeInv, ListInv
  <2> QED  BY <2>2, <2>3, <2>4 DEF SafeInv
<1> QED  BY ListInvariance, <1>1, <1>2, PTL DEF Spec

\* free_slot_pop gives no slot to two threads and try_gc finds every reader in its
\* slot, for any number of threads that register and exit, until a slot is popped
\* with an outdated next.
THEOREM OwnSlotTheorem == Spec => []OwnSlot
<1>1. ListInv /\ (aba \/ SafeInv) => OwnSlot
  BY Registered DEF SafeInv, ListInv, OwnSlot, InOwnSlot
<1> QED  BY ListInvariance, SafeInvariance, <1>1, PTL

\* No thread that reads loses a node but one that a collection took from a global
\* stack after the epoch had moved on, until a slot is popped with an outdated next:
\* the stale epochs the threads announce, the collections that pass them and the
\* threads that come and go never free what one of them may have a pointer to.
THEOREM ReclaimSafeTheorem == Spec => []ReclaimSafe
<1>1. (aba \/ SafeInv) => ReclaimSafe
  BY DEF SafeInv, ReclaimSafe, KeptInv
<1> QED  BY SafeInvariance, <1>1, PTL
=============================================================================
