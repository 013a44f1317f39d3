----------------------------- MODULE LLMProvider -----------------------------
(***************************************************************************)
(* ai/llm_provider.py: which vendors a call to complete() tries.  The      *)
(* vendors' APIs are external: a call ends in a text, an httpx.HTTPError   *)
(* (timeouts included), a body without the expected keys (RuntimeError),   *)
(* or any other error, such as a body that is no JSON or a null text.      *)
(***************************************************************************)
LOCAL INSTANCE Sequences

Vendors  == {"gemini", "groq"}
Outcomes == {"text", "http", "shape", "other"}

Other(v) == CHOOSE u \in Vendors : u # v

(* get_llm_provider: none without a key of the configured vendor, even if  *)
(* there is one of the other.                                              *)
Chain(primary, keys) ==
  IF primary \notin keys THEN <<>>
  ELSE IF Other(primary) \in keys THEN <<primary, Other(primary)>>
  ELSE <<primary>>

(* Slip: the errors of httpx only.                                         *)
FallsOverHttp(outcome) == outcome = "http"

(* FallbackLLMProvider: what leads to the next vendor.                     *)
Falls(outcome) == outcome \in {"http", "shape"}

=============================================================================
