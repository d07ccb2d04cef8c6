----------------------------- MODULE RemoteCall -----------------------------
(* What a component tunnel promises to the program that calls a component     *)
(* somewhere else: one call at a time is asked, performed at most once, and   *)
(* answered after it was performed, with its own answer; it may also never be *)
(* performed, or never be answered, and be forgotten with its connection.     *)
EXTENDS Naturals

VARIABLES
    call,    \* the number of the last call that was asked
    stage,   \* of that call: "asked", "performed", or "over"
    result   \* the number of the last call whose answer was passed on

Init == call = 0 /\ stage = "over" /\ result = 0

Ask == stage = "over" /\ stage' = "asked" /\ call' = call + 1 /\ UNCHANGED result
Perform == stage = "asked" /\ stage' = "performed" /\ UNCHANGED <<call, result>>
Answer == stage = "performed" /\ stage' = "over" /\ result' = call /\ UNCHANGED call
Forget == stage' = "over" /\ UNCHANGED <<call, result>>

vars == <<call, stage, result>>

Next == Ask \/ Perform \/ Answer \/ Forget

Spec == Init /\ [][Next]_vars
=============================================================================
