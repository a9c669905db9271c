----------------------------- MODULE CachePromise -----------------------------
(***************************************************************************)
(* What the semantic cache promises the gateway: a call is served only     *)
(* what is kept for a prompt within the threshold of its own; what is kept *)
(* are answers the providers gave, each under the prompt they were given   *)
(* for; and keeping one is an attempt that goes on behind the call, may    *)
(* come to nothing, and is over when the process dies.                     *)
(***************************************************************************)
EXTENDS Naturals

CONSTANTS
    Call,
    Prompt,
    PromptOf,   \* the prompt of each call
    Similar,    \* pairs of prompts with a similarity >= the threshold
    None        \* no answer

VARIABLES
    kept,       \* the prompts whose answers are in the cache
    keeping,    \* the calls whose answers may still get there
    answer      \* what each call is answered with, named by its prompt

cacheVars == <<kept, keeping, answer>>

\* The table outlives the process: it may hold anything kept before.
Init ==
    /\ kept \in SUBSET Prompt
    /\ keeping = {}
    /\ answer = [c \in Call |-> None]

Reply(c, p) == answer[c] = None /\ answer' = [answer EXCEPT ![c] = p]

\* Mutant: the nearest row, however far it is (no WHERE clause).
ServeNearest(c) ==
    /\ \E p \in kept : Reply(c, p)
    /\ UNCHANGED <<kept, keeping>>

\* A lookup that finds something; one that does not, or fails, is no step.
Serve(c) ==
    /\ \E p \in kept : <<PromptOf[c], p>> \in Similar /\ Reply(c, p)
    /\ UNCHANGED <<kept, keeping>>

\* The providers answer, and the answer is handed to the cache, if that works.
Answer(c) ==
    /\ Reply(c, PromptOf[c])
    /\ keeping' \in {keeping, keeping \cup {c}}
    /\ UNCHANGED kept

Keep(c) ==
    /\ c \in keeping
    /\ keeping' = keeping \ {c}
    /\ kept' = kept \cup {PromptOf[c]}
    /\ UNCHANGED answer

GiveUp(c) ==
    /\ c \in keeping
    /\ keeping' = keeping \ {c}
    /\ UNCHANGED <<kept, answer>>

Die ==
    /\ keeping' = {}
    /\ UNCHANGED <<kept, answer>>

Next ==
    \/ \E c \in Call : Serve(c) \/ Answer(c) \/ Keep(c) \/ GiveUp(c)
    \/ Die

Spec == Init /\ [][Next]_cacheVars
===============================================================================
