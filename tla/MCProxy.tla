------------------------------ MODULE MCProxy ------------------------------
(***************************************************************************)
(* The shipped backends.json, cut down to the entries that differ: two     *)
(* capped backends that fall back to each other and to the default, a      *)
(* capped backend that is nobody's fallback, and a route without a name.   *)
(* The budgets are one unit and a response costs at most one, so that the  *)
(* first charge already exhausts a budget.                                 *)
(***************************************************************************)
EXTENDS Proxy, TLC

CONSTANTS r1, r2, alpha, beta, pPlain, pSSN, pClean, pJailbreak

MCNames == {"openai", "anthropic", "google", "vllm/", "ollama", "retired"}
MCModels == {"gpt", "claude", "gemini", "vllm"}

Route(models, label, name, fallback, cap, priced, keyed) ==
    [serves |-> models, label |-> label, name |-> name, fallback |-> fallback,
     budget |-> cap, priced |-> priced, keyed |-> keyed]

MCRoutes ==
    <<Route({"gpt"}, "openai", "openai", <<"anthropic", "retired", "ollama">>, 1, TRUE, TRUE),
      Route({"claude"}, "anthropic", "anthropic", <<"openai", "ollama">>, 1, TRUE, TRUE),
      Route({"gemini"}, "google", "google", <<>>, 1, TRUE, TRUE),
      Route({"vllm"}, "vllm/", NoName, <<"ollama">>, 0, TRUE, FALSE)>>

MCDefault == [label |-> "ollama", name |-> "ollama", priced |-> FALSE, keyed |-> FALSE]

Tenants2 == {alpha, beta}
MCMayUse ==
    alpha :> [backends |-> MCNames, models |-> MCModels] @@
    beta :> [backends |-> {"openai"}, models |-> {"gpt", "gemini"}]

Symmetry == Permutations(Requests)

MCPrompts == {pPlain, pSSN, pClean, pJailbreak}
MCRedacted == [p \in Prompts |-> IF p = pSSN THEN pClean ELSE p]

Input(tenant, model, prompt, stream, sampled) ==
    [tenant |-> tenant, model |-> model, prompt |-> prompt, stream |-> stream, sampled |-> sampled]

MCInputs ==
    {Input(alpha, "gpt", pSSN, FALSE, FALSE),
     Input(beta, "gpt", pPlain, TRUE, FALSE),
     Input(alpha, "gemini", NoPrompt, FALSE, FALSE),
     Input(beta, "gemini", pPlain, FALSE, FALSE),
     Input(alpha, "vllm", pJailbreak, FALSE, TRUE),
     Input(alpha, NullModel, pPlain, FALSE, FALSE),
     Input(alpha, NoModel, pPlain, FALSE, FALSE)}

Response(status, cost, pii) == [status |-> status, json |-> TRUE, cost |-> cost, pii |-> pii]
MCReplies == {Response(200, 1, Places), Response(503, 1, {})}

\* With fewer requests, also an answer without PII, and one that is no JSON.
LiveReplies == MCReplies \cup {Response(200, 1, {}), [Response(404, 0, {}) EXCEPT !.json = FALSE]}

(***************************************************************************)
(* Less of everything: with this, one behaviour breaks all that the        *)
(* documents promise.                                                      *)
(***************************************************************************)
DocumentNames == {"openai", "anthropic", "ollama"}
DocumentModels == {"gpt", "claude"}
DocumentRoutes ==
    <<Route({"gpt"}, "openai", "openai", <<"anthropic">>, 1, TRUE, TRUE),
      Route({"claude"}, "anthropic", "anthropic", <<>>, 1, TRUE, TRUE)>>
DocumentMayUse == beta :> [backends |-> {"openai"}, models |-> {"gpt"}]
DocumentInputs == {Input(beta, "gpt", pPlain, FALSE, FALSE), Input(beta, "claude", pPlain, FALSE, FALSE)}
DocumentReplies == {Response(200, 1, Places)}
DocumentPolicies == {[pii |-> "redact", injection |-> "log"], [pii |-> "log", injection |-> "log"]}

MCPolicies ==
    {[pii |-> "redact", injection |-> "block"], [pii |-> "block", injection |-> "log"]}
=============================================================================
