------------------------------- MODULE Lists -------------------------------
(***************************************************************************)
(* Two helpers the translations share: what a Go loop keeps of a slice,    *)
(* and an assignment to an entry of a Go map.  They stand for SelectSeq,   *)
(* @@ and :> because the provers know the definitions of none of those.    *)
(***************************************************************************)
EXTENDS Naturals, SequencesExt

(* The elements that pass the test, in their order.                         *)
Only(s, Test(_)) ==
  FlattenSeq([i \in DOMAIN s |-> IF Test(s[i]) THEN <<s[i]>> ELSE <<>>])

(* m[key] = value                                                           *)
Put(m, key, value) ==
  [k \in DOMAIN m \cup {key} |-> IF k = key THEN value ELSE m[k]]
=============================================================================
