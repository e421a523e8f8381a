---------------------------- MODULE MCProviders ----------------------------
\* One model per protocol, a second one to switch to within a family, and a
\* responses endpoint that does not number its items.
EXTENDS Providers

To(family, model) == [family |-> family, model |-> model]
MCUnnumbered == {To("responses", "b")}
MCRoutes ==
  {To("openai", "a"), To("anthropic", "a"), To("anthropic", "b"), To("responses", "a")}
    \cup MCUnnumbered
MCReplies == {<<"reasoning", "call", "text", "call">>, <<"text", "call", "text">>, <<"text">>}
============================================================================
