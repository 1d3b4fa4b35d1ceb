----------------------------- MODULE WebSearch ------------------------------
(***************************************************************************)
(* The web_search skill: ranked providers, of which the first that finds   *)
(* something answers.                                                      *)
(***************************************************************************)
EXTENDS ToolCall

CONSTANT Providers   \* how many there are: Tavily, if it has a key, and ddgs

ASSUME ProvidersAssumption == Providers \in Nat \ {0}

VARIABLES
    provider,   \* the provider a search asks
    failures,   \* how many providers have failed
    heard       \* history: what each provider came to, in order

searchVars == <<provider, failures, heard>>

SearchInit ==
    /\ provider = [c \in Calls |-> 1]
    /\ failures = [c \in Calls |-> 0]
    /\ heard = [c \in Calls |-> <<>>]

(* A blank query is refused. *)
SearchBegins(c) ==
    /\ Awaits(c, "search") \/ Ends(c, "invalid")
    /\ UNCHANGED searchVars

(* Mutant: nothing was found because one provider failed. *)
AnyFailed(n) == n > 0

AllFailed(n) == n = Providers

(* The next provider, or the end, with n providers failed. *)
AsksNext(c, n) ==
    IF provider[c] < Providers
    THEN /\ provider' = [provider EXCEPT ![c] = @ + 1]
         /\ UNCHANGED callVars
    ELSE /\ Ends(c, IF AllFailed(n) THEN "unavailable" ELSE "empty")
         /\ UNCHANGED provider

(* An HTTP error, an error of ddgs, or an answer that cannot be read. *)
ProviderFails(c) ==
    /\ at[c] = "search"
    /\ failures' = [failures EXCEPT ![c] = @ + 1]
    /\ heard' = [heard EXCEPT ![c] = Append(@, "failed")]
    /\ AsksNext(c, failures[c] + 1)

(* ddgs says this by raising, which its provider turns into no hits. *)
ProviderFindsNothing(c) ==
    /\ at[c] = "search"
    /\ heard' = [heard EXCEPT ![c] = Append(@, "nothing")]
    /\ AsksNext(c, failures[c])
    /\ UNCHANGED failures

ProviderFinds(c) ==
    /\ at[c] = "search"
    /\ heard' = [heard EXCEPT ![c] = Append(@, "found")]
    /\ Ends(c, "result")
    /\ UNCHANGED <<provider, failures>>

(* Anything else a provider raises, such as a body of another shape. *)
ProviderRaises(c) ==
    /\ at[c] = "search"
    /\ Ends(c, "raised")
    /\ UNCHANGED searchVars

SearchStep(c) ==
    ProviderFails(c) \/ ProviderFindsNothing(c) \/ ProviderFinds(c) \/ ProviderRaises(c)

SearchForgotten ==
    /\ provider' = [c \in Calls |-> 1]
    /\ failures' = [c \in Calls |-> 0]
    /\ heard' = [c \in Calls |-> <<>>]
=============================================================================
