------------------------------- MODULE Logger -------------------------------
(***************************************************************************)
(* The print functions of slog.cpp. printError, printWarning, printInfo    *)
(* and printDebug each have a static mutex of their own, held while the    *)
(* text is formatted and written; optv says which of them write at all.    *)
(* The two sinks, console and DLT, differ in nothing that matters here:    *)
(* both write to a file, and a write is where a thread that has been       *)
(* cancelled may end.                                                      *)
(***************************************************************************)
EXTENDS Integers

CONSTANTS
    Threads,    \* the threads that print
    Nobody,     \* the owner of a free mutex
    DebugLevels \* what the launcher may give to setDbgLevel

VARIABLES
    optv,       \* the debug level
    cs_mutex    \* the owner of each function's mutex

Functions == {"printError", "printWarning", "printInfo", "printDebug"}

TypeOK ==
    /\ optv \in Int
    /\ cs_mutex \in [Functions -> Threads \union {Nobody}]

\* CLauncher's constructor has called setDbgLevel. An option that main was not
\* given leaves its variable unset, so any level may arrive here.
Init ==
    /\ optv \in DebugLevels
    /\ cs_mutex = [f \in Functions |-> Nobody]

\* Whether f's sink writes, or leaves the text alone.
Writes(f) ==
    \/ f = "printError"
    \/ f = "printWarning" /\ optv > 0
    \/ f = "printInfo" /\ optv > 1
    \/ f = "printDebug" /\ optv > 2

Lock(t, f) ==
    /\ cs_mutex[f] = Nobody
    /\ cs_mutex' = [cs_mutex EXCEPT ![f] = t]
    /\ UNCHANGED optv

Unlock(t, f) ==
    /\ cs_mutex[f] = t
    /\ cs_mutex' = [cs_mutex EXCEPT ![f] = Nobody]
    /\ UNCHANGED optv

\* The whole call, made by a thread that nobody cancels: it takes the mutex
\* and gives it back, so it waits for it and changes nothing.
Printed(f) ==
    /\ cs_mutex[f] = Nobody
    /\ UNCHANGED <<optv, cs_mutex>>
=============================================================================
