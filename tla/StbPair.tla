-------------------------------- MODULE StbPair --------------------------------
(***************************************************************************)
(* Switching windows (src/sources/tas/stb/stb_transfer.c).  A window says  *)
(* that a signal may switch from its date D up to its date U; a signal has *)
(* a list of them, kept in order.                                          *)
(*                                                                         *)
(* A definition named Mutant... is a bug the next definition might have    *)
(* had; nothing uses it.                                                   *)
(***************************************************************************)
EXTENDS Integers, Sequences, SequencesExt

Window == [D : Int, U : Int]

Pair(d, u) == [D |-> d, U |-> u]

Ordered(list) == /\ \A k \in DOMAIN list : list[k].D <= list[k].U
                 /\ \A k \in 1..(Len(list) - 1) : list[k].U < list[k + 1].D

First(S, otherwise) == IF S = {} THEN otherwise ELSE CHOOSE i \in S : \A k \in S : i <= k

Smallest(S) == CHOOSE x \in S : \A y \in S : x <= y
Largest(S) == CHOOSE x \in S : \A y \in S : y <= x

(***************************************************************************)
(* stb_globalstbpair: the window from the first to the last date of a      *)
(* list.                                                                   *)
(***************************************************************************)
MutantHullOfEnds(list) == LET u == list[Len(list)].U
                              d == list[1].D
                          IN  Pair(IF d > u THEN u ELSE d, u)

Hull(list) == LET u == Largest({p.U : p \in ToSet(list)})
                  d == Smallest({p.D : p \in ToSet(list)})
              IN  Pair(IF d > u THEN u ELSE d, u)

(***************************************************************************)
(* stb_mergestbpairlist: each window of the first list takes in the        *)
(* windows of the second it meets.  Those it meets are the ones after the  *)
(* last that ends before it and before the first that starts after it; the *)
(* code cuts the list there, and dereferences NULL when the second place   *)
(* comes before the first.  ok tells whether that happened.                *)
(***************************************************************************)
Before(list, elm) == First({i \in DOMAIN list : ~(list[i].U < elm.D)}, Len(list) + 1) - 1

MutantAfter(list, elm) == First({i \in DOMAIN list : ~(elm.U > list[i].D)}, Len(list) + 1)

After(list, elm) == First({i \in DOMAIN list : ~(elm.U >= list[i].D)}, Len(list) + 1)

Insert(m, elm) ==
    LET before == Before(m.list, elm)
        after == After(m.list, elm)
    IN  IF ~m.ok \/ after <= before THEN [m EXCEPT !.ok = FALSE]
        ELSE [m EXCEPT !.list = SubSeq(@, 1, before)
                                \o <<Hull(<<elm>> \o SubSeq(@, before + 1, after - 1))>>
                                \o SubSeq(@, after, Len(@))]

Merge(list1, m) == IF list1 = <<>> THEN m
                   ELSE IF m.list = <<>> THEN [m EXCEPT !.list = list1]
                   ELSE FoldLeft(Insert, m, list1)

(***************************************************************************)
(* stb_fusestbpair and stb_adddelaystbpair: every window moves by a delay  *)
(* and those that come to meet are fused.                                  *)
(***************************************************************************)
Fuse(list) ==
    LET step(acc, p) == IF acc # <<>> /\ Last(acc).U >= p.D
                        THEN ReplaceAt(acc, Len(acc), Pair(Last(acc).D, p.U))
                        ELSE Append(acc, p)
    IN  FoldLeft(step, <<>>, list)

AddDelay(list, delaymax, delaymin, periode) ==
    Fuse([i \in DOMAIN list |-> Pair(list[i].D + delaymin - periode,
                                     list[i].U + delaymax - periode)])

-----------------------------------------------------------------------------
(***************************************************************************)
(* stb_clockmaskstblist.  A clock record holds the edges of the command    *)
(* that opens and that closes a latch (the triggering edge of a flip-flop  *)
(* is the opening one) and the access delay, each with its earliest and    *)
(* latest date.  STB_OPEN_LATCH_PHASE is 'N': the dates of a latch are     *)
(* counted in the period of its closing edge.                              *)
(***************************************************************************)
Opening(ck, m) == (IF ck.opens[m] < ck.closes[m] THEN ck.opens[m] ELSE ck.opens[m] - ck.period)
                  + ck.access[m]

SlopeOpen(ck) == Opening(ck, "min")
SlopeClose(ck) == ck.closes["max"]
SlopeOpenMax(ck) == Smallest({Opening(ck, "max"), SlopeClose(ck)})

Edge(ck) == Pair(ck.opens["min"] + ck.access["min"], ck.opens["max"] + ck.access["max"])

(***************************************************************************)
(* The window a latch starts with: it switches when it opens, or up to its *)
(* closing when the worst case is asked for.                               *)
(***************************************************************************)
InitialWindow(ck, worst) ==
    IF ck.type = "FLIPFLOP" THEN <<Edge(ck)>>
    ELSE LET u == IF worst THEN SlopeClose(ck) ELSE Opening(ck, "max")
             d == SlopeOpen(ck)
         IN  <<Pair(IF d > u THEN u ELSE d, u)>>

(***************************************************************************)
(* The windows that end before the latch opens are dropped.  Of the others *)
(* the first starts no earlier than the opening, and lasts until it;       *)
(* windows within the opening go, and one that begins within it joins the  *)
(* first.                                                                  *)
(***************************************************************************)
Opened(list, openmax) ==
    LET k == First({i \in DOMAIN list : list[i].U >= openmax}, Len(list) + 1)
    IN  IF k = 1 THEN list
        ELSE IF k <= Len(list) /\ list[k].D <= openmax
        THEN <<Pair(list[1].D, list[k].U)>> \o SubSeq(list, k + 1, Len(list))
        ELSE <<Pair(list[1].D, openmax)>> \o SubSeq(list, k, Len(list))

LatchMask(list, ck) ==
    LET open == SlopeOpen(ck)
        close == SlopeClose(ck)
        openmax == SlopeOpenMax(ck)
        kept == SubSeq(list, First({i \in DOMAIN list : ~(list[i].U < open)}, Len(list) + 1),
                       Len(list))
    IN  CASE list = <<>> -> <<>>
          [] list # <<>> /\ kept = <<>> -> <<Pair(Smallest({open, openmax}), openmax)>>
          [] kept # <<>> /\ Last(kept).U >= close ->
                 <<Pair(Largest({Smallest({open, close}), kept[1].D}), close)>>
          [] OTHER -> Opened(<<Pair(Largest({open, kept[1].D}), kept[1].U)>> \o Tail(kept),
                             openmax)

MutantClockMask(list, ck) ==
    IF list # <<>> /\ ck.type = "LATCH" THEN LatchMask(list, ck) ELSE list

ClockMask(list, ck) ==
    IF list = <<>> THEN <<>>
    ELSE IF ck.type = "FLIPFLOP" THEN <<Edge(ck)>>
    ELSE LatchMask(list, ck)
=============================================================================
