------------------------------ MODULE DelayCache ------------------------------
(***************************************************************************)
(* The delay cache of src/sources/tas/trc/trc_delay.c.  A signal in the    *)
(* cache has a ptype, RCX_DELAYCACHE, with a list of chains, one for each  *)
(* kind of delay.  The kind kept here is the crosstalk mode the delay was  *)
(* computed in; a chain is the set of the pins it has a delay for.         *)
(*                                                                         *)
(* The functions are operators on the record [cache, typed, chains,        *)
(* error]; error tells that a message 045 or 047 was reported.             *)
(***************************************************************************)
EXTENDS MbkCache

CONSTANTS Pin,         \* where a signal is driven
          DelayMax,    \* CACHESIZE
          PtypeSize,   \* sizeof(ptype_list)
          LoadSize     \* sizeof(rcx_cache_load)

ASSUME DelayAssumption == /\ IsFiniteSet(Pin)
                          /\ DelayMax \in Nat \ {0}
                          /\ PtypeSize \in Nat /\ LoadSize \in Nat

Mode == {"MILLER", "NOCROSSTALK"}

Chain == [mode : Mode, pins : SUBSET Pin]

EmptyDelays == [cache |-> EmptyCache,
                typed |-> {},
                chains |-> [s \in Signal |-> <<>>],
                error |-> FALSE]

-----------------------------------------------------------------------------
(***************************************************************************)
(* What a list of chains takes, and what the ptype adds to it.             *)
(***************************************************************************)
ChainSize(chain) == PtypeSize + LoadSize * Cardinality(chain.pins)

ListSize(chains) == SumFunction([i \in DOMAIN chains |-> ChainSize(chains[i])])

SizeOf(del, s) == PtypeSize + ListSize(del.chains[s])

(***************************************************************************)
(* rcx_cache_fn_release, of a set of signals.                              *)
(***************************************************************************)
SizeWithoutDelays(del, gone) ==
    del.cache.size - SumFunctionOnSet([s \in gone |-> SizeOf(del, s)], gone \cap del.typed)

MutantPtypeLeft(del, gone) ==
    [del EXCEPT !.cache = Without(@, gone, SizeWithoutDelays(del, gone)),
                !.chains = [s \in Signal |-> IF s \in gone THEN <<>> ELSE @[s]]]

ReleasedDelays(del, gone) ==
    [del EXCEPT !.cache = Without(@, gone, SizeWithoutDelays(del, gone)),
                !.typed = @ \ gone,
                !.chains = [s \in Signal |-> IF s \in gone THEN <<>> ELSE @[s]],
                !.error = @ \/ ~(gone \subseteq del.typed)]

RoomForDelays(del) ==
    ReleasedDelays(del, Victims(del.cache, DelayMax, LAMBDA gone : SizeWithoutDelays(del, gone)))

(***************************************************************************)
(* mbk_cache_refresh, with rcx_cache_fn_load; and mbk_cache_lock.          *)
(***************************************************************************)
Attached(del, s) == [del EXCEPT !.cache = Add(@, s, PtypeSize),
                              !.typed = @ \cup {s},
                              !.error = @ \/ s \in del.typed]

LockDelays(del, s) ==
    LET here == IF Has(del.cache, s) THEN [del EXCEPT !.cache = MakeItFirst(@, s)]
                ELSE Attached(RoomForDelays(del), s)
    IN  [here EXCEPT !.cache = Lock(@, s)]

UnlockDelays(del, s) == [del EXCEPT !.cache = Unlock(@, s)]

(***************************************************************************)
(* rcx_get_cache_load finds a delay of the mode for the pin.               *)
(***************************************************************************)
Hit(del, s, pin, mode) ==
    \E chain \in ToSet(del.chains[s]) : chain.mode = mode /\ pin \in chain.pins

(***************************************************************************)
(* rcx_add_cache_load: a new chain is the first of the list.  Then         *)
(* mbk_cache_update_size, that may release other signals.                  *)
(***************************************************************************)
WithLoad(chains, pin, mode) ==
    IF \E chain \in ToSet(chains) : chain.mode = mode
    THEN [i \in DOMAIN chains |-> IF chains[i].mode = mode
                                  THEN [chains[i] EXCEPT !.pins = @ \cup {pin}] ELSE chains[i]]
    ELSE <<[mode |-> mode, pins |-> {pin}]>> \o chains

AddLoad(del, s, pin, mode) ==
    LET chains == WithLoad(del.chains[s], pin, mode)
        grown == ListSize(chains) - ListSize(del.chains[s])
    IN  IF s \notin del.typed THEN RoomForDelays([del EXCEPT !.error = TRUE])
        ELSE RoomForDelays([del EXCEPT !.chains[s] = chains, !.cache.size = @ + grown])

-----------------------------------------------------------------------------
(***************************************************************************)
(* rcx_delay_cache_remove_from_cache.  prev stays NULL: what remains of a  *)
(* list starts after the last chain removed.  The signals left with an     *)
(* empty list are then released.                                           *)
(***************************************************************************)
Remaining(chains, mode) ==
    LET removed == {i \in DOMAIN chains : chains[i].mode = mode}
    IN  IF removed = {} THEN chains ELSE SubSeq(chains, Max(removed) + 1, Len(chains))

MutantWholeLists(del, mode) ==
    LET touched == {s \in ToSet(del.cache.lru) :
                       \E chain \in ToSet(del.chains[s]) : chain.mode = mode}
    IN  SumFunctionOnSet([s \in touched |-> ListSize(del.chains[s])], touched)

ModeSize(chains, mode) ==
    SumFunctionOnSet([i \in DOMAIN chains |-> ChainSize(chains[i])],
                     {i \in DOMAIN chains : chains[i].mode = mode})

RemovedSize(del, mode) ==
    LET present == ToSet(del.cache.lru)
    IN  SumFunctionOnSet([s \in present |-> ModeSize(del.chains[s], mode)], present)

MutantEmptyKept(cut, shrunk) == {}

Emptied(cut, shrunk) == {s \in ToSet(cut.cache.lru) \cap cut.typed :
                            cut.chains[s] = <<>> /\ Releasable(shrunk.cache, s)}

RemoveFromCache(del, mode) ==
    LET cut == [del EXCEPT !.chains = [s \in Signal |-> Remaining(@[s], mode)],
                           !.cache.size = @ - RemovedSize(del, mode),
                           !.error = @ \/ ~(ToSet(del.cache.lru) \subseteq del.typed)]
        shrunk == RoomForDelays(cut)
    IN  ReleasedDelays(shrunk, Emptied(cut, shrunk))

FlushDelayCache(del) == RemoveFromCache(RemoveFromCache(del, "MILLER"), "NOCROSSTALK")
=============================================================================
