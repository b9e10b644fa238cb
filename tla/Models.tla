------------------------------- MODULE Models -------------------------------
(***************************************************************************)
(* Which provider a model name means (internal/proxy/models/resolve.go).   *)
(* A name is the sequence of its parts between dashes.  First the suffix   *)
(* that asks for thinking is taken off, then the one that sets the effort, *)
(* and only then aliases are looked up, once.                              *)
(***************************************************************************)
EXTENDS Naturals, SequencesExt

Efforts == {"xhigh", "high", "medium", "low", "minimal", "auto", "max", "none"}

Ends(name, suffixes) == Len(name) > 1 /\ Last(name) \in suffixes

SplitSuffix(name, suffixes) ==
  IF Ends(name, suffixes) THEN [base |-> Front(name), suffix |-> <<Last(name)>>]
  ELSE [base |-> name, suffix |-> <<>>]

Unresolved == [provider |-> "none", model |-> <<>>, thinking |-> FALSE]

(* A known family is enough; the catalog adds single names of Kiro.         *)
Family(name) ==
  CASE name[1] \in {"gpt", "o1", "o3", "o4"} -> "codex"
    [] name[1] = "claude" \/ name \in {<<"auto">>, <<"glm", "5">>} -> "kiro"
    [] OTHER -> "none"

ResolveModel(name, aliases) ==
  LET thinking == SplitSuffix(name, {"thinking"})
      effort == SplitSuffix(thinking.base, Efforts)
      base == IF effort.base \in DOMAIN aliases THEN aliases[effort.base]
              ELSE effort.base
      provider == IF name = <<>> THEN "none" ELSE Family(base)
  IN IF provider = "none" THEN Unresolved
     ELSE [provider |-> provider, model |-> base,
           thinking |-> \/ provider = "kiro"
                        \/ thinking.suffix # <<>> \/ effort.suffix # <<>>]
=============================================================================
