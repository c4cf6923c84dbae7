------------------------------ MODULE MCTrcLoad ------------------------------
(***************************************************************************)
(* Properties and instances of the interconnect and delay caches.          *)
(***************************************************************************)
EXTENDS TrcLoad

CONSTANTS a, b, c

MCSignal == {a, b, c}
MCCoupling == {{a, b}, {b, c}}

(***************************************************************************)
(* The two signals that are coupled to the same third are interchangeable. *)
(***************************************************************************)
MCSymmetry == Permutations({a, c})

(***************************************************************************)
(* A signal is flagged loaded if and only if it is in the cache and has    *)
(* its wires (rcn_cache_debug, "mismatch cache status").  Whatever the     *)
(* order in which two coupled signals are read and released, their         *)
(* coupling is in memory once while one is loaded, and not afterwards.     *)
(***************************************************************************)
ParasiticsOnce ==
    /\ net.loaded = ToSet(net.cache.lru) /\ net.wired = net.loaded
    /\ \A p \in Coupling : net.coupled[p] = IF p \cap net.loaded = {} THEN 0 ELSE 1

(***************************************************************************)
(* The size of the interconnect cache is that of the parasitics in memory: *)
(* rcn_cache_debug, "cache->CURSIZE=%lu size=%lu".                         *)
(***************************************************************************)
RcnSizeAgrees == net.cache.size = WireSize * Cardinality(net.wired)
                                    + CtcSize * SumFunction(net.coupled)

(***************************************************************************)
(* Between rcn_lock_signal and rcn_unlock_signal the parasitics of the     *)
(* signal are in memory: mbk_cache_lock "Verrouille un élément en mémoire" *)
(* (src/sources/mbk/mbk_cache.c:119).                                      *)
(***************************************************************************)
HeldLoaded == \A s \in Signal : Wanted(s) => s \in net.loaded

(***************************************************************************)
(* What is true of the code: a signal that is locked stays in memory until *)
(* its last unlock, whatever else is read, evicted and unlocked meanwhile, *)
(* unless a command flushed it while it was the last accessed and it has   *)
(* not been read since.                                                    *)
(***************************************************************************)
LocksProtect == \A s \in Signal \ unread : Wanted(s) => s \in net.loaded

(***************************************************************************)
(* A signal is in the delay cache if and only if it has its ptype, and no  *)
(* message 045 or 047 is ever reported; the signal a delay is computed for *)
(* stays there.                                                            *)
(***************************************************************************)
DelaysAttached == /\ del.typed = ToSet(del.cache.lru)
                  /\ ~del.error
                  /\ load.cached => load.sig \in del.typed

(***************************************************************************)
(* The delays reachable never take more than the delay cache believes.     *)
(* They may take less: removing the delays of one mode loses others        *)
(* (trccheckcachecoherence, "size missmatch").                             *)
(***************************************************************************)
DelaysSize == SumFunctionOnSet([s \in del.typed |-> SizeOf(del, s)], del.typed)

DelaySizeCovers == del.cache.size >= DelaysSize

(***************************************************************************)
(* While crosstalk delays depend on the slopes of the aggressors, which    *)
(* the analysis changes, none of them can be found in the cache.           *)
(***************************************************************************)
SlopeDelaysNotKept ==
    ~miller => \A s \in Signal, pin \in Pin : ~Hit(del, s, pin, "MILLER")

(***************************************************************************)
(* The delay cache holds what it says and nothing that has gone stale.     *)
(***************************************************************************)
DelaysCurrent == DelaysAttached /\ SlopeDelaysNotKept

(***************************************************************************)
(* Neither cache believes it is smaller than it is, through reads,         *)
(* evictions, unlocks and flushes in any order.                            *)
(***************************************************************************)
SizesAgree == RcnSizeAgrees /\ DelaySizeCovers

-----------------------------------------------------------------------------
(***************************************************************************)
(* When room is made for a signal, the others that stay are locked or were *)
(* accessed after the ones released.  (The signal accessed last is never   *)
(* released for room, but a command may flush it.)                         *)
(***************************************************************************)
Position(s) == SelectInSeq(used, LAMBDA t : t = s)

OldestGoFirst ==
    \A s \in net.loaded \ (net'.loaded \cup {net'.memo}), t \in net.loaded \cap net'.loaded :
        \/ IsLock(net.cache, t)
        \/ t = net'.memo
        \/ Position(t) < Position(s)

(***************************************************************************)
(* mbk_cache_update_memory, before a signal is loaded, brings the size     *)
(* below the maximum unless all that remains is locked: a locked signal    *)
(* does not keep those accessed after it from being released.              *)
(***************************************************************************)
EnoughGo ==
    \A s \in net'.loaded \ net.loaded :
        \/ net'.cache.size - WireSize - CtcSize * Cardinality({p \in Coupling : s \in p}) < RcnMax
        \/ \A t \in net'.loaded \ {s} : IsLock(net.cache, t)

(***************************************************************************)
(* Room is made with the oldest signals, and enough of it, although locks  *)
(* stand in the list and a release changes it while it is gone through.    *)
(***************************************************************************)
RoomFromOldest == [][OldestGoFirst /\ EnoughGo]_vars

(***************************************************************************)
(* After trcflushdelaycache no signal is in the delay cache: the signals   *)
(* of a netlist are freed after it.                                        *)
(***************************************************************************)
FlushEmpties == [][FlushDelays => del'.cache.lru = <<>>]_vars
=============================================================================
