----------------------------- MODULE MCDecoder ------------------------------
(* One resource with its scopes; every key, vendor, time and outcome of a     *)
(* patch that the decoder tells apart, in some record.                        *)
EXTENDS Decoder

NameKinds == {"", "claude_code.api_request", "claude_code.user_prompt", "codex.tool_result", "other"}
VendorPrefixes ==
    [n \in NameKinds |-> CASE n \in {"claude_code.user_prompt", "claude_code.api_request"} -> "claude_code"
                          [] n = "codex.tool_result" -> "codex" [] OTHER -> ""]
TextSuffixes ==
    [n \in NameKinds |-> CASE n = "claude_code.user_prompt" -> "prompt" [] n = "codex.tool_result" -> "tool_result" [] OTHER -> ""]
VendorOfService == [codex_cli |-> "codex"]

Attribute(k, v) == [key |-> k, value |-> v]

OfResource == {<<>>, <<Attribute("service.name", "codex_cli"), Attribute("conversation.id", "conv"), Attribute("input_tokens", "nil")>>}
OfScope == {<<>>, <<Attribute("session.id", "s1"), Attribute("tool_parameters", "file"), Attribute("event.timestamp", "t2")>>}

Line(name, time, observed, body, attrs, size) ==
    [name |-> name, time |-> time, observed |-> observed, body |-> body, attrs |-> attrs, size |-> size]
CallAttrs(success, text) ==
    <<Attribute("tool_name", "apply_patch"), Attribute("success", success), Attribute("arguments", text)>>
Logged ==
    {Line("", "t1", "", "", <<Attribute("event.name", "claude_code.user_prompt"), Attribute("prompt", ""), Attribute("user_prompt", "a")>>, 1),
     Line("claude_code.user_prompt", "", "t1", "b", <<Attribute("session.id", "")>>, 2),
     Line("claude_code.api_request", "t1", "", "", <<Attribute("request_id", "r1"), Attribute("model", "m")>>, 1),
     Line("claude_code.api_request", "t1", "", "", <<Attribute("request_id", "r2"), Attribute("model", "m")>>, 1),
     Line("other", "over", "t1", "", <<Attribute("input_token_count", "-1"), Attribute("input_tokens", "5")>>, 1),
     Line("other", "t1", "", "d", <<Attribute("input_tokens", "5"), Attribute("input_token_count", "-1"), Attribute("event_name", "claude_code.user_prompt")>>, 3),
     Line("codex.tool_result", "t1", "", "", CallAttrs("true", "patch"), 1),
     Line("codex.tool_result", "t1", "", "", CallAttrs("true", "torn") \o <<Attribute("output", "o")>>, 1),
     Line("codex.tool_result", "t1", "", "c", CallAttrs("true", "text"), 1),
     Line("codex.tool_result", "t1", "", "", CallAttrs("true", ""), 1),
     Line("codex.tool_result", "t1", "", "", CallAttrs("false", "patch") \o <<Attribute("decision", "reject")>>, 1),
     Line("codex.tool_result", "t1", "", "", <<Attribute("tool_input", "text"), Attribute("tool_parameters", "file"), Attribute("arguments", "nil")>>, 1)}
Points ==
    {Line("claude_code.user_prompt", "", "t1", "", <<Attribute("model", "m")>>, 1),
     Line("other", "", "", "", <<Attribute("model", "m"), Attribute("event.name", "claude_code.user_prompt")>>, 2),
     Line("", "t1", "", "", <<>>, 1)}
=============================================================================
