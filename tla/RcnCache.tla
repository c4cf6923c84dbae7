------------------------------- MODULE RcnCache -------------------------------
(***************************************************************************)
(* The interconnect cache of src/sources/mbk/rcn_cache.c for one lofig:    *)
(* the parasitics of a signal are read from the file when it is accessed,  *)
(* and released when room is needed.                                       *)
(*                                                                         *)
(* A coupling between two signals is in the file once for each of them and *)
(* in memory as long as one of them is loaded.  Signals whose cache is     *)
(* disabled keep their parasitics and are not in Signal.                   *)
(*                                                                         *)
(* The functions are operators on the record [cache, loaded, wired,        *)
(* coupled, memo]: the client calls several of them in one step.           *)
(***************************************************************************)
EXTENDS MbkCache

CONSTANTS Coupling,    \* the pairs of signals with a coupling in the file
          RcnMax,      \* CACHESIZE, RCN_CACHE_SIZE in the code
          WireSize,    \* the wires of a signal, times RCN_SIZEOFLOWIRE
          CtcSize      \* RCN_SIZEOFLOCTC

NoSignal == "none"

ASSUME RcnAssumption == /\ Coupling \subseteq {c \in SUBSET Signal : Cardinality(c) = 2}
                        /\ RcnMax \in Nat \ {0}
                        /\ WireSize \in Nat /\ CtcSize \in Nat
                        /\ NoSignal \notin Signal

(***************************************************************************)
(* loaded is the flag RCNCACHEFLAG_LOAD, wired the signals with a PWIRE,   *)
(* coupled the loctcs of a pair, memo the static lastlosig.                *)
(***************************************************************************)
EmptyNet == [cache |-> EmptyCache,
             loaded |-> {},
             wired |-> {},
             coupled |-> [c \in Coupling |-> 0],
             memo |-> NoSignal]

-----------------------------------------------------------------------------
(***************************************************************************)
(* rcn_cache_release, of a set of signals: the wires of each are deleted,  *)
(* and a coupling once none of its signals is loaded.                      *)
(***************************************************************************)
Uncoupled(net, gone) == {c \in Coupling : /\ c \cap gone # {}
                                          /\ c \cap (net.loaded \ gone) = {}}

MutantCouplingsUncounted(net, gone) ==
    net.cache.size - WireSize * Cardinality(net.wired \cap gone)

SizeWithout(net, gone) ==
    net.cache.size - WireSize * Cardinality(net.wired \cap gone)
                   - CtcSize * SumFunctionOnSet(net.coupled, Uncoupled(net, gone))

Released(net, gone) ==
    [net EXCEPT !.cache = Without(@, gone, SizeWithout(net, gone)),
                !.loaded = @ \ gone,
                !.wired = @ \ gone,
                !.coupled = [c \in Coupling |-> IF c \in Uncoupled(net, gone) THEN 0 ELSE @[c]]]

(***************************************************************************)
(* The load callback, rcxparsesignalparasitics: a coupling of the signal   *)
(* is added if neither end is loaded.                                      *)
(***************************************************************************)
MutantAlwaysAdded(net, s) == {c \in Coupling : s \in c}

Addable(net, s) == {c \in Coupling : s \in c /\ c \cap net.loaded = {}}

Loaded(net, s) ==
    LET size == WireSize + CtcSize * Cardinality(Addable(net, s))
    IN  [net EXCEPT !.cache = Add(@, s, size),
                    !.wired = @ \cup {s},
                    !.coupled = [c \in Coupling |-> IF c \in Addable(net, s) THEN @[c] + 1 ELSE @[c]]]

(***************************************************************************)
(* mbk_cache_refresh makes room for a signal that is not there before it   *)
(* is loaded.                                                              *)
(***************************************************************************)
MakeRoom(net) ==
    Released(net, Victims(net.cache, RcnMax, LAMBDA gone : SizeWithout(net, gone)))

CacheRefresh(net, s) ==
    IF Has(net.cache, s) THEN [net EXCEPT !.cache = MakeItFirst(@, s)]
    ELSE Loaded(MakeRoom(net), s)

(***************************************************************************)
(* rcn_refresh_signal: nothing is done for the signal refreshed last.      *)
(***************************************************************************)
RefreshSignal(net, s) ==
    IF net.memo = s THEN net
    ELSE [CacheRefresh(net, s) EXCEPT !.loaded = @ \cup {s}, !.memo = s]

LockSignal(net, s) == [RefreshSignal(net, s) EXCEPT !.cache = Lock(@, s)]

UnlockSignal(net, s) == [net EXCEPT !.cache = Unlock(@, s)]

FlushSignal(net, s) == IF Releasable(net.cache, s) THEN Released(net, {s}) ELSE net
=============================================================================
