------------------------------- MODULE MCLlmSpans -------------------------------
EXTENDS LlmSpans, TLC

CONSTANTS t1, t2, c1, c2

Object(of, model, tokens, vendor) ==
    [of |-> of, model |-> model, tokens |-> tokens, vendor |-> vendor]
Whole(of) == <<Object(of, "m", "reported", None)>>
Blank(of) == <<Object(of, None, None, None)>>
By(maker, result) == [result |-> result, maker |-> maker, model |-> "m", reports |-> TRUE]
Empty(of) == [result |-> Blank(of), maker |-> None, model |-> None, reports |-> FALSE]
Made(of) == By(of, Whole(of))
(* A framework's wrapper around an answer; LangChain's repeats its model.  *)
In(of, result) ==
    <<Object(of, IF of = "langchain" THEN "m" ELSE None, None, None)>> \o result

MCAnswers ==
    {Made(of) : of \in {"openai", "azure_openai", "bedrock"}}
    \union {By("anthropic", <<Object("bedrock", "m", "reported", "anthropic")>>),
            By("azure_openai", In("langgraph", In("langchain", Whole("azure_openai")))),
            By("gemini", In("llamaindex", Whole("gemini"))),
            By(None, In("langgraph", Whole("langchain"))),
            By(None, <<Object("crewai", None, "reported", None)>>),
            Empty("documents"), Empty("other")}

Arguments(client, inside, model, override) ==
    [client |-> client, inside |-> inside, model |-> model, override |-> override]
MCRequests ==
    {Arguments(None, None, None, None),
     Arguments("openai", "openai", "claude", "groq"),
     Arguments("modelId", None, "gpt", None)}

MCChunks == {[of |-> of] : of \in {"azure_openai", "gemini", "other"}}
MCRunning == {"gemini"}
Symmetry == Permutations(Users)
MCPriceList == {"openai", "azure_openai"}
=============================================================================
