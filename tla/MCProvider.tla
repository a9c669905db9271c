----------------------------- MODULE MCProvider -----------------------------
(***************************************************************************)
(* Instances of Provider for TLC.                                          *)
(***************************************************************************)
EXTENDS Provider

Models == {"llama3-70b-8192", "gpt-3.5-turbo", "gemini-1.5-pro", "a model of no table"}

\* Conversations of one to three messages, told apart by their contents: each
\* role alone, and any two or three of them in any order.
Conversations ==
    UNION {{[i \in 1..n |-> [role |-> roles[i], content |-> i]] :
                roles \in [1..n -> {"system", "user", "assistant", "tool"}]} : n \in 1..3}

\* Any conversation with one model, and one conversation with any model.
SomeAsks ==
    {[model |-> "llama3-70b-8192", messages |-> messages] : messages \in Conversations}
        \cup {[model |-> model, messages |-> <<[role |-> "user", content |-> 1]>>] : model \in Models}

\* One conversation and one model.
OneAsk == {[model |-> "llama3-70b-8192", messages |-> <<[role |-> "user", content |-> 1]>>]}
=============================================================================
