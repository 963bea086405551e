------------------------------ MODULE AtomicStore ------------------------------
(***************************************************************************)
(* What "atomic write" promises of a file several goroutines save to       *)
(* (internal/auth/auth.go, internal/server/handler.go): the file always    *)
(* holds one version, whole; it changes only when a save that is under way *)
(* takes effect, once, with the version that save was given; and a crash   *)
(* loses the saves under way and nothing else.                             *)
(***************************************************************************)

CONSTANTS
    Writer,
    Version,
    None

VARIABLES
    value,      \* the version the file holds, or None before the first save
    pending     \* the version each Writer is saving, or None

vars == <<value, pending>>

Init ==
    /\ value \in Version \cup {None}
    /\ pending = [w \in Writer |-> None]

Begin(w, v) ==
    /\ pending[w] = None
    /\ pending' = [pending EXCEPT ![w] = v]
    /\ UNCHANGED value

Commit(w) ==
    /\ pending[w] # None
    /\ value' = pending[w]
    /\ pending' = [pending EXCEPT ![w] = None]

Fail(w) ==
    /\ pending[w] # None
    /\ pending' = [pending EXCEPT ![w] = None]
    /\ UNCHANGED value

Crash ==
    /\ pending' = [w \in Writer |-> None]
    /\ UNCHANGED value

Next ==
    \/ \E w \in Writer : Commit(w) \/ Fail(w) \/ \E v \in Version : Begin(w, v)
    \/ Crash

Spec == Init /\ [][Next]_vars
=============================================================================
