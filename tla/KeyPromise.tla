----------------------------- MODULE KeyPromise -----------------------------
(***************************************************************************)
(* What an idempotency key promises its callers until its record expires,  *)
(* without saying how.  One caller at a time owns the key.  Its effect     *)
(* happens once; the answer it stores is the answer to what the key was    *)
(* first used for, and stays.  An owner that fails leaves the key to the   *)
(* next one; an owner that vanishes leaves it blocked, with or without the *)
(* effect, and nobody gets it before it expires.                           *)
(***************************************************************************)
CONSTANTS
    Callers,
    Questions,  \* what a key can be used for
    Nothing     \* no question, no answer

VARIABLES
    phase,      \* "free", "claimed", "effected", "failed", "stored", "over"
    owners,     \* who owns the key: nobody or one caller
    asked,      \* what the key is used for
    answer      \* the stored answer

keyVars == <<phase, owners, asked, answer>>

Init == phase = "free" /\ owners = {} /\ asked = Nothing /\ answer = Nothing

Claim(q) ==
    /\ owners = {} /\ owners' = {q} /\ phase' = "claimed" /\ UNCHANGED answer
    /\ \/ phase = "free" /\ asked' \in Questions
       \/ phase = "failed" /\ UNCHANGED asked

Take(q) ==
    /\ phase = "claimed" /\ owners = {q} /\ phase' = "effected"
    /\ UNCHANGED <<owners, asked, answer>>

Store(q) ==
    /\ phase = "effected" /\ owners = {q} /\ phase' = "stored" /\ owners' = {}
    /\ answer' = asked /\ UNCHANGED asked

Fail(q) ==
    /\ phase = "claimed" /\ owners = {q} /\ phase' = "failed" /\ owners' = {}
    /\ UNCHANGED <<asked, answer>>

Vanish(q) ==
    /\ owners = {q} /\ owners' = {} /\ UNCHANGED <<phase, asked, answer>>

\* Also a record that is created by a late caller and has expired already.
Expire ==
    /\ phase' = "over" /\ owners' = {}
    /\ asked' = Nothing /\ answer' = Nothing

Next ==
    \/ \E q \in Callers : Claim(q) \/ Take(q) \/ Store(q) \/ Fail(q) \/ Vanish(q)
    \/ Expire

Spec == Init /\ [][Next]_keyVars
=============================================================================
