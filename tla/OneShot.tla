------------------------------- MODULE OneShot -------------------------------
(***************************************************************************)
(* What a CassFuture promises to the application: a value that is set at   *)
(* most once, callers that are handed that value or an error, and one      *)
(* callback that fires once, after the value is set.                       *)
(***************************************************************************)
CONSTANTS Threads, Results, Unset

VARIABLES result,    \* the value, or Unset
          callback,  \* who registered the callback, or Unset
          fired,     \* has the callback fired
          ret        \* what the last call of each thread returned

osVars == <<result, callback, fired, ret>>

Init ==
    /\ result \in Results \cup {Unset}
    /\ callback = Unset
    /\ fired = FALSE
    /\ ret = [t \in Threads |-> "none"]

Resolve ==
    /\ result = Unset
    /\ result' \in Results
    /\ UNCHANGED <<callback, fired, ret>>

Begin(t) ==
    /\ ret' = [ret EXCEPT ![t] = "none"]
    /\ UNCHANGED <<result, callback, fired>>

ReturnValue(t) ==
    /\ result # Unset
    /\ ret' = [ret EXCEPT ![t] = result]
    /\ UNCHANGED <<result, callback, fired>>

GiveUp(t, why) ==
    /\ ret' = [ret EXCEPT ![t] = why]
    /\ UNCHANGED <<result, callback, fired>>

(* Before the value is set a registration returns at once.                  *)
Register(t) ==
    /\ callback = Unset
    /\ callback' = t
    /\ ret' = IF result = Unset THEN [ret EXCEPT ![t] = "cb_ok"] ELSE ret
    /\ UNCHANGED <<result, fired>>

Reject(t) ==
    /\ callback # Unset
    /\ ret' = [ret EXCEPT ![t] = "cb_already_set"]
    /\ UNCHANGED <<result, callback, fired>>

(* After it, the registering call returns when its callback has run.        *)
Fire ==
    /\ result # Unset /\ callback # Unset /\ ~fired
    /\ fired' = TRUE
    /\ ret' \in {ret, [ret EXCEPT ![callback] = "cb_ok"]}
    /\ UNCHANGED <<result, callback>>

Next ==
    \/ Resolve
    \/ Fire
    \/ \E t \in Threads :
          \/ Begin(t) \/ ReturnValue(t) \/ Register(t) \/ Reject(t)
          \/ \E why \in {"timeout", "invalid"} : GiveUp(t, why)

Spec == Init /\ [][Next]_osVars
=============================================================================
