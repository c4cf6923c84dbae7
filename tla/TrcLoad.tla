------------------------------- MODULE TrcLoad -------------------------------
(***************************************************************************)
(* The clients of the two caches: rcx_rcnload, which looks for a delay and *)
(* computes it from the parasitics of the signal when it is not there; the *)
(* code that accesses parasitics and may keep a signal locked meanwhile;   *)
(* and the crosstalk analysis of stb_ctk, which changes what delays mean.  *)
(*                                                                         *)
(* The program is sequential.  While a delay is computed, and while a      *)
(* signal is locked, other signals are accessed.                           *)
(***************************************************************************)
EXTENDS RcnCache, DelayCache

CONSTANTS MaxHolds,    \* bound of the model: locks held at a time
          MaxToggles   \* bound of the model: changes of mode outside stb_ctk

ASSUME LoadAssumption == MaxHolds \in Nat /\ MaxToggles \in Nat

VARIABLES net,       \* the interconnect cache and the parasitics in memory
          del,       \* the delay cache and the delays in memory
          mode,      \* RCX_CROSSTALK
          miller,    \* RCXDELAYCACHEFORCROSSTALK
          analysis,  \* stb_ctk is running
          held,      \* locks each signal has from clients other than rcx_rcnload
          load,      \* the delay rcx_rcnload is computing
          used,      \* history: the loaded signals, last accessed first
          unread,    \* history: the signals flushed while last accessed
          toggles

vars == <<net, del, mode, miller, analysis, held, load, used, unread, toggles>>

NoLoad == [sig |-> NoSignal, pin |-> NoSignal, cached |-> FALSE]

Init == /\ net = EmptyNet
        /\ del = EmptyDelays
        /\ mode = "NOCROSSTALK"
        /\ miller = TRUE
        /\ analysis = FALSE
        /\ held = [s \in Signal |-> 0]
        /\ load = NoLoad
        /\ used = <<>>
        /\ unread = {}
        /\ toggles = 0

Idle == load = NoLoad

Holds == SumFunction(held)

Wanted(s) == held[s] > 0 \/ load.sig = s

Access(s, after) ==
    /\ net' = after
    /\ used' = Unlink(<<s>> \o Unlink(used, {s}), Signal \ ToSet(after.cache.lru))

(***************************************************************************)
(* An access reads what it needs, so that what stays unread is wanted from *)
(* before, or is still out of memory although it is the last accessed.     *)
(***************************************************************************)
Read(after) ==
    unread' = {s \in unread : Wanted(s) \/ (s = after.memo /\ s \notin after.loaded)}

-----------------------------------------------------------------------------
(***************************************************************************)
(* Accesses to parasitics: a refresh; a lock that other accesses follow; a *)
(* signal flushed and refreshed by a command, where nothing is locked.     *)
(* The refresh does nothing when that signal is the last accessed.         *)
(***************************************************************************)
Touch(s) == /\ Access(s, RefreshSignal(net, s))
            /\ Read(RefreshSignal(net, s))
            /\ UNCHANGED <<del, mode, miller, analysis, held, load, toggles>>

Hold(s) == /\ Holds < MaxHolds
           /\ Access(s, LockSignal(net, s))
           /\ Read(LockSignal(net, s))
           /\ held' = [held EXCEPT ![s] = @ + 1]
           /\ UNCHANGED <<del, mode, miller, analysis, load, toggles>>

Drop(s) == /\ held[s] > 0
           /\ net' = UnlockSignal(net, s)
           /\ held' = [held EXCEPT ![s] = @ - 1]
           /\ UNCHANGED <<del, mode, miller, analysis, load, used, unread, toggles>>

View(s) == /\ \A t \in Signal : ~Wanted(t)
           /\ Access(s, RefreshSignal(FlushSignal(net, s), s))
           /\ unread' = IF net.memo = s THEN {s} ELSE {}
           /\ UNCHANGED <<del, mode, miller, analysis, held, load, toggles>>

-----------------------------------------------------------------------------
(***************************************************************************)
(* rcx_rcnload.  rcx_get_delay_cache gives the cache, or NULL when the     *)
(* delays of the current mode are not kept.                                *)
(***************************************************************************)
MutantAlwaysKept == TRUE

DelayCacheActive == mode = "NOCROSSTALK" \/ miller

Found(s, pin) == /\ Idle
                 /\ DelayCacheActive
                 /\ Hit(LockDelays(del, s), s, pin, mode)
                 /\ del' = UnlockDelays(LockDelays(del, s), s)
                 /\ UNCHANGED <<net, mode, miller, analysis, held, load, used, unread, toggles>>

Compute(s, pin) == /\ Idle
                   /\ IF DelayCacheActive
                      THEN /\ ~Hit(LockDelays(del, s), s, pin, mode)
                           /\ del' = LockDelays(del, s)
                      ELSE UNCHANGED del
                   /\ Access(s, LockSignal(net, s))
                   /\ Read(LockSignal(net, s))
                   /\ load' = [sig |-> s, pin |-> pin, cached |-> DelayCacheActive]
                   /\ UNCHANGED <<mode, miller, analysis, held, toggles>>

(***************************************************************************)
(* The computed delay is stored, unless the signal has no model of its     *)
(* interconnect, and the locks are released.                               *)
(***************************************************************************)
Finish(stored) ==
    /\ ~Idle
    /\ net' = UnlockSignal(net, load.sig)
    /\ del' = IF ~load.cached THEN del
              ELSE UnlockDelays(IF stored THEN AddLoad(del, load.sig, load.pin, mode) ELSE del,
                                load.sig)
    /\ load' = NoLoad
    /\ UNCHANGED <<mode, miller, analysis, held, used, unread, toggles>>

-----------------------------------------------------------------------------
(***************************************************************************)
(* stb_ctk: crosstalk delays are kept unless they depend on the slope of   *)
(* the aggressors, RCX_SLOPE_CTK.  Each iteration ends with a flush.       *)
(***************************************************************************)
BeginCrosstalk(slopes) ==
    /\ Idle /\ ~analysis
    /\ analysis' = TRUE
    /\ mode' = "MILLER"
    /\ IF slopes /\ miller
       THEN miller' = FALSE /\ del' = RemoveFromCache(del, "MILLER")
       ELSE UNCHANGED miller /\ del' = RoomForDelays(del)
    /\ UNCHANGED <<net, held, load, used, unread, toggles>>

FlushDelays == /\ Idle
               /\ del' = FlushDelayCache(del)
               /\ UNCHANGED <<net, mode, miller, analysis, held, load, used, unread, toggles>>

EndCrosstalk == /\ Idle /\ analysis
                /\ del' = RoomForDelays(FlushDelayCache(del))
                /\ analysis' = FALSE
                /\ mode' = "NOCROSSTALK"
                /\ miller' = TRUE
                /\ UNCHANGED <<net, held, load, used, unread, toggles>>

(***************************************************************************)
(* ttv_RecomputeLineChain: a delay with crosstalk, then one without.       *)
(***************************************************************************)
Toggle == /\ Idle /\ ~analysis
          /\ toggles < MaxToggles
          /\ toggles' = toggles + 1
          /\ mode' = IF mode = "MILLER" THEN "NOCROSSTALK" ELSE "MILLER"
          /\ UNCHANGED <<net, del, miller, analysis, held, load, used, unread>>

Next == \/ \E s \in Signal : Touch(s) \/ Hold(s) \/ Drop(s) \/ View(s)
        \/ \E s \in Signal, pin \in Pin : Found(s, pin) \/ Compute(s, pin)
        \/ \E stored \in BOOLEAN : Finish(stored)
        \/ \E slopes \in BOOLEAN : BeginCrosstalk(slopes)
        \/ FlushDelays \/ EndCrosstalk \/ Toggle

Spec == Init /\ [][Next]_vars
=============================================================================
