---------------------------- MODULE MCModelWire ----------------------------
(* One model of Anthropic's, one on a local server, an alias of each kind,   *)
(* two aliases that lead in a circle and a name nobody serves; a server that *)
(* gives one id or none, and requests and results with an image or two.      *)
EXTENDS ModelWire

NamesSmall == {"claude", "local", "fast", "around", "there"}
WrittenSmall == {"claude", "fast", "around"}
AliasesSmall == ("fast" :> "local") @@ ("around" :> "there") @@ ("there" :> "around")
PrefixSmall == ("claude" :> "") @@ ("local" :> "ollama") @@ ("fast" :> "") @@ ("around" :> "nowhere")
  @@ ("there" :> "nowhere")
NoProviders == <<>>
GivenOne == {<<0, 1>>}
AskedFor == {-1, 40, 41}
=============================================================================
