----------------------------- MODULE Conversion -----------------------------
(***************************************************************************)
(* What is computed from a request and from an answer, without state: the  *)
(* Gemini adapter's form of a conversation and of a model's name, and the  *)
(* controller's estimate of what the answer cost.                          *)
(*                                                                         *)
(* A message is a role and a content, names stand for themselves.  Rates   *)
(* are in thousandths of a dollar per million tokens, costs in millionths  *)
(* of a rupee, the six decimals of toFixed.                                *)
(***************************************************************************)
EXTENDS Integers, Sequences

CONSTANTS
    UsdToInr,          \* USD_TO_INR, 84 by default
    GeminiDefaultModel \* app.providers.geminiDefaultModel

ASSUME UsdAssumption == UsdToInr \in Nat /\ UsdToInr > 10

\* Array.filter.  It is the library's SelectSeq; written out, it can be proved about.
Filter(messages, Test(_)) ==
    LET chosen[n \in 0..Len(messages)] ==
            IF n = 0 THEN <<>>
            ELSE IF Test(messages[n]) THEN Append(chosen[n - 1], messages[n]) ELSE chosen[n - 1]
    IN  chosen[Len(messages)]

IsSystem(m)   == m.role = "system"
IsInTurn(m)   == m.role # "system"

Continue == [role |-> "user", text |-> "(continue)"]

\* Roles other than the two that Gemini has are the user's: the DTO takes any string.
Content(m) == [role |-> IF m.role = "assistant" THEN "model" ELSE "user", text |-> m.content]

\* Mutant: Array.push for Array.unshift.
PushContinue(messages) ==
    LET system   == Filter(messages, IsSystem)
        turns    == Filter(messages, IsInTurn)
        contents == [n \in DOMAIN turns |-> Content(turns[n])]
    IN  [ systemInstruction |-> [n \in DOMAIN system |-> system[n].content],
          contents |-> IF contents # <<>> /\ contents[1].role = "model"
                       THEN Append(contents, Continue) ELSE contents ]

\* System messages become one instruction (here the sequence of what it joins),
\* the others contents, which must not begin with the model's turn.
ConvertMessages(messages) ==
    LET system   == Filter(messages, IsSystem)
        turns    == Filter(messages, IsInTurn)
        contents == [n \in DOMAIN turns |-> Content(turns[n])]
    IN  [ systemInstruction |-> [n \in DOMAIN system |-> system[n].content],
          contents |-> IF contents # <<>> /\ contents[1].role = "model"
                       THEN <<Continue>> \o contents ELSE contents ]

\* Only these names have an equivalent; all others, Gemini's own among them,
\* become the default.
MapModel(model) ==
    CASE model \in {"llama3-70b-8192", "gpt-4"} -> "gemini-2.5-pro"
      [] model \in {"qwen/qwen3.8-27b", "openai/gpt-oss-20b", "llama3-8b-8192",
                    "mixtral-8x7b-32768", "gpt-3.5-turbo"} -> "gemini-2.5-flash"
      [] OTHER -> GeminiDefaultModel
-----------------------------------------------------------------------------
\* COST_RATES, for tokens in and out; gemini-2.5-pro has none of its own.
Rates(model) ==
    CASE model \in {"qwen/qwen3.8-27b", "openai/gpt-oss-20b", "llama3-8b-8192"} -> <<50, 80>>
      [] model = "llama3-70b-8192" -> <<590, 790>>
      [] model = "mixtral-8x7b-32768" -> <<240, 240>>
      [] model \in {"gemini-2.5-flash", "gemini-1.5-flash"} -> <<75, 300>>
      [] model = "gemini-1.5-pro" -> <<3500, 10500>>
      [] OTHER -> <<100, 100>>

\* In thousandths of a millionth of a rupee.
ExactCost(model, tokensIn, tokensOut) ==
    (tokensIn * Rates(model)[1] + tokensOut * Rates(model)[2]) * UsdToInr

\* Mutant: four decimals, as in the worker's log line.
EstimateToFixed4(model, tokensIn, tokensOut) ==
    {((ExactCost(model, tokensIn, tokensOut) + 50000) \div 100000) * 100}

\* toFixed(6): the nearest millionth.  Halfway between two it is either of
\* them, since the product is a float just below, at or just above the half.
EstimateCostInr(model, tokensIn, tokensOut) ==
    {(ExactCost(model, tokensIn, tokensOut) + half) \div 1000 : half \in {499, 500}}
=============================================================================
