--------------------------- MODULE MCChatRequest ---------------------------
(* Three models: a dear one the client asks for, the cheap one routing may
   choose, and the Anthropic substitute both may fail over to. *)
EXTENDS ChatRequest, TLC

CONSTANTS dear, cheap, claude

FailoverMap == (dear :> claude) @@ (cheap :> dear) @@ (claude :> NoModel)

=============================================================================
