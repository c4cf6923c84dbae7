------------------------------- MODULE MbkCache -------------------------------
(***************************************************************************)
(* The element cache of src/sources/mbk/mbk_cache.c: a list of elements,   *)
(* FIRST the last accessed, each with a count of locks, and the size that  *)
(* the load and release callbacks of the client report.  Operators on a    *)
(* cache, for the modules of its clients, whose elements are signals.      *)
(*                                                                         *)
(* A client says what the size becomes when a set of elements is released: *)
(* SizeAfter(_).  No client of the repository limits the number of         *)
(* elements, so MAXELEM is left out.                                       *)
(*                                                                         *)
(* A definition named Mutant... is a bug the next definition might have    *)
(* had; no behaviour uses it.                                              *)
(***************************************************************************)
EXTENDS Integers, Sequences, FiniteSets, SequencesExt

CONSTANT Signal

ASSUME SignalAssumption == IsFiniteSet(Signal)

Cache == [lru : SeqOf(Signal, Cardinality(Signal)), locks : [Signal -> Nat], size : Int]

EmptyCache == [lru |-> <<>>, locks |-> [e \in Signal |-> 0], size |-> 0]

Has(cache, e) == e \in ToSet(cache.lru)

IsLock(cache, e) == Has(cache, e) /\ cache.locks[e] > 0

Lock(cache, e) == IF Has(cache, e) THEN [cache EXCEPT !.locks[e] = @ + 1] ELSE cache

Unlock(cache, e) == IF IsLock(cache, e) THEN [cache EXCEPT !.locks[e] = @ - 1] ELSE cache

(***************************************************************************)
(* What is left of a list when elements are taken out of it.               *)
(***************************************************************************)
Unlink(list, gone) ==
    LET left[i \in 0..Len(list)] ==
            IF i = 0 THEN <<>>
            ELSE IF list[i] \in gone THEN left[i - 1] ELSE Append(left[i - 1], list[i])
    IN  left[Len(list)]

-----------------------------------------------------------------------------
(***************************************************************************)
(* mbk_cache_makeitfirst and mbk_cache_add.                                *)
(***************************************************************************)
MutantLeftInPlace(cache, e) == cache

MakeItFirst(cache, e) == [cache EXCEPT !.lru = <<e>> \o Unlink(@, {e})]

Add(cache, e, size) == [cache EXCEPT !.lru = <<e>> \o @, !.locks[e] = 0, !.size = @ + size]

(***************************************************************************)
(* mbk_cache_remove, of several elements.                                  *)
(***************************************************************************)
Without(cache, gone, size) ==
    [lru |-> Unlink(cache.lru, gone),
     locks |-> [e \in Signal |-> IF e \in gone THEN 0 ELSE cache.locks[e]],
     size |-> size]

(***************************************************************************)
(* mbk_cache_update_memory: elements are released from the LAST one, but   *)
(* for the locked ones, until the size is below the maximum.               *)
(***************************************************************************)
MutantLocksForgotten(cache, i) == {cache.lru[j] : j \in i..Len(cache.lru)}

MutantStopsAtALock(cache, i) ==
    {cache.lru[j] : j \in {k \in i..Len(cache.lru) :
        \A l \in k..Len(cache.lru) : ~IsLock(cache, cache.lru[l])}}

FromPosition(cache, i) ==
    {cache.lru[j] : j \in {k \in i..Len(cache.lru) : ~IsLock(cache, cache.lru[k])}}

Victims(cache, max, SizeAfter(_)) ==
    LET enough == {i \in 1..Len(cache.lru) + 1 : SizeAfter(FromPosition(cache, i)) < max}
    IN  FromPosition(cache, IF enough = {} THEN 1 ELSE Max(enough))

(***************************************************************************)
(* mbk_cache_release: nothing happens to an element that is locked.        *)
(***************************************************************************)
Releasable(cache, e) == Has(cache, e) /\ ~IsLock(cache, e)
=============================================================================
