------------------------------ MODULE MCTerminal ------------------------------
(* Two paths without a parent, one of them the parent of two fields; two        *)
(* providers that share those keys, so that only meta tells them apart.  A      *)
(* session begins with a bundle stored as siblings or as one JSON entry.        *)
EXTENDS Terminal

MCOrder == <<"a", "b", "b/token", "b/user">>
MCParent == [n \in {"a", "b", "b/token", "b/user"} |-> IF n \in {"a", "b"} THEN "" ELSE "b"]
MCLeaf == ("a" :> "a") @@ ("b" :> "b") @@ ("b/token" :> "token") @@ ("b/user" :> "user")
MCRequired == ("github" :> {"token"}) @@ ("pypi" :> {"token"})
MCOptional == ("github" :> {"user"}) @@ ("pypi" :> {"user"})
MCSpells == ("a" :> {}) @@ ("b" :> {}) @@ ("b/token" :> {"t"}) @@ ("b/user" :> {})
            @@ ("github" :> {"t"}) @@ ("pypi" :> {})

Sibling(v) == [Value(v) EXCEPT !.meta = "github"]
Field(k, v) == k :> v
MCVaults ==
  { ("a" :> Value("old")) @@ ("b/token" :> Sibling("old")) @@ ("b/user" :> Sibling("old")),
    ("a" :> Value("old")) @@ ("b" :> Bundle("github", Field("token", "old"))) }
MCForeigner ==
  { [path |-> "b/user", entry |-> NoEntry], [path |-> "a", entry |-> Value("else")] }
=============================================================================
