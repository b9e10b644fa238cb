--------------------------- MODULE GatewayProofs ---------------------------
(***************************************************************************)
(* What holds of one request to the proxy, for any settings, bodies, models *)
(* and answers: no request is served that the settings kept out             *)
(* (admission); what is sent to a provider, what is understood of its       *)
(* answer and what a client is streamed have their types; the outputs in    *)
(* the input of Codex follow their calls, each once; the turns Kiro is sent *)
(* alternate and say what was said, in order, and bring every result of a   *)
(* round of tools; the blocks of a stream nest.  The invariant is "Whole",  *)
(* at the end: each part of it says of one pair of neighbours in the        *)
(* pipeline what the next part needs of it.                                 *)
(***************************************************************************)
EXTENDS Gateway, TLAPS

-----------------------------------------------------------------------------
(* Admission. *)

(***************************************************************************)
(* What holds of the admission of a request for any number of keys and of  *)
(* changes of the settings.                                                *)
(***************************************************************************)
SettingsOK == settings \in [key : Keys \cup {NoKey}, mode : BOOLEAN]

(* The part of validateSecurityHeaders a request has behind it.  Before it  *)
(* reads the mode, any settings that would let the request in have been     *)
(* taken note of; a key it was given that fits was the key when it was      *)
(* read, which lets it in whatever the mode was.                            *)
Judged ==
  /\ stage \in {"arrived", "keyed"} => (Admits(settings, req.credential) => req.admissible)
  /\ stage = "keyed" => /\ req.credential # Malformed
                        /\ req.key # NoKey /\ req.credential = req.key => req.admissible

Requests == [route : Routes, method : {"GET", "POST", "OPTIONS"},
             credential : Keys \cup {NoKey, Malformed}, key : Keys \cup {NoKey},
             admissible : BOOLEAN, provider : {"none", "codex", "kiro"},
             stream : BOOLEAN]

IInv == SettingsOK /\ req \in Requests /\ stage \in Stages /\ Judged /\ ServedIsAllowed

(* The stages after the admission. *)
Past == {"admitted", "decoded", "prepared", "speaking", "collected", "streaming",
         "ended", "left"}

(* What follows the admission leaves its outcome alone. *)
LEMMA AfterAdmission ==
  ASSUME IInv, stage \in Past \ {"ended", "left"}, stage' \in Past, SettingsOK',
         req' \in Requests, req'.admissible = req.admissible
  PROVE  IInv'
BY DEF IInv, Judged, ServedIsAllowed, Past, Stages, SettingsOK, Requests

LEMMA ArriveKeeps == ASSUME IInv, Arrive PROVE IInv'
<1>1. PICK route \in Routes, credential \in Keys \cup {NoKey, Malformed},
           method \in {"GET", "POST", "OPTIONS"} :
        req' = [req EXCEPT !.route = route, !.method = method,
                           !.credential = credential,
                           !.admissible = Admits(settings, credential)]
  BY DEF Arrive
<1>2. stage' \in {"ended", "arrived"}
  BY DEF Arrive, Reply, Goto
<1>3. settings' = settings
  BY DEF Arrive, Rest, asked
<1>4. Admits(settings, credential) \in BOOLEAN
  BY DEF Admits
<1> QED
  BY <1>1, <1>2, <1>3, <1>4 DEF IInv, SettingsOK, Judged, ServedIsAllowed, Admits, Stages, Requests

LEMMA ReadKeyKeeps == ASSUME IInv, ReadKey PROVE IInv'
<1>1. req' = [req EXCEPT !.key = settings.key] /\ settings' = settings /\ stage = "arrived"
  BY DEF ReadKey, Rest, asked
<1>2. CASE req.credential = Malformed
  <2>1. stage' = "ended"
    BY <1>2 DEF ReadKey, Reply, Goto
  <2> QED
    BY <1>1, <2>1 DEF IInv, SettingsOK, Judged, ServedIsAllowed, Stages, Requests
<1>3. CASE req.credential # Malformed
  <2>1. stage' = "keyed"
    BY <1>3 DEF ReadKey, Goto
  <2>2. settings.key # NoKey /\ req.credential = settings.key => Admits(settings, req.credential)
    BY <1>3 DEF Admits
  <2> QED
    BY <1>1, <1>3, <2>1, <2>2 DEF IInv, SettingsOK, Judged, ServedIsAllowed, Admits, Stages, Requests
<1> QED
  BY <1>2, <1>3

LEMMA ReadModeKeeps == ASSUME IInv, ReadMode PROVE IInv'
<1>1. UNCHANGED <<req, settings>> /\ stage = "keyed"
  BY DEF ReadMode, Rest, asked
<1>2. stage' = "ended" \/ (stage' = "admitted" /\ Passes)
  BY DEF ReadMode, Reply, Goto
<1>3. Passes => req.admissible
  <2>1. ~settings.mode => Admits(settings, req.credential)
    BY <1>1 DEF Admits, IInv, Judged
  <2> QED
    BY <1>1, <2>1 DEF Passes, IInv, Judged
<1> QED
  BY <1>1, <1>2, <1>3 DEF IInv, SettingsOK, Judged, ServedIsAllowed, Stages

LEMMA ChangeKeeps == ASSUME IInv, ChangeSettings PROVE IInv'
<1>1. /\ req' = [req EXCEPT !.admissible = @ \/ Admits(settings', req.credential)]
      /\ UNCHANGED stage /\ stage \in {"arrived", "keyed"}
  BY DEF ChangeSettings
<1>2. SettingsOK'
  BY DEF ChangeSettings, IInv, SettingsOK
<1>3. Admits(settings', req.credential) \in BOOLEAN
  BY DEF Admits
<1>4. /\ req' \in Requests /\ req'.credential = req.credential /\ req'.key = req.key
      /\ req'.admissible = (req.admissible \/ Admits(settings', req.credential))
  BY <1>1, <1>3 DEF IInv, Requests
<1> QED
  BY <1>1, <1>2, <1>4 DEF IInv, Judged, ServedIsAllowed, Admits, Stages

LEMMA ResolvedIsKnown ==
  ASSUME NEW name, NEW aliases, ResolveModel(name, aliases) # Unresolved
  PROVE  ResolveModel(name, aliases).provider \in {"codex", "kiro"}
<1> DEFINE thinking == SplitSuffix(name, {"thinking"})
           effort == SplitSuffix(thinking.base, Efforts)
           base == IF effort.base \in DOMAIN aliases THEN aliases[effort.base]
                   ELSE effort.base
<1> HIDE DEF thinking, effort, base
<1>1. Family(base) \in {"codex", "kiro", "none"}
  BY DEF Family
<1> QED
  BY <1>1 DEF ResolveModel, thinking, effort, base

LEMMA LaterKeeps ==
  ASSUME IInv,
         \/ Unreadable \/ Decode \/ Prepare \/ Send
         \/ Hear \/ KiroEnds \/ CodexEnds \/ TryAgain \/ GiveUp
         \/ AnswerWhole \/ StartStream \/ Write \/ ClientLeaves
  PROVE  IInv'
<1>1. stage \in Past \ {"ended", "left"}
  BY DEF Unreadable, Decode, Prepare, Send, Hear, KiroEnds, CodexEnds, TryAgain,
         GiveUp, AnswerWhole, StartStream, Write, ClientLeaves, Past
<1>2. settings' = settings
  BY DEF Unreadable, Decode, Prepare, Send, Hear, KiroEnds, CodexEnds, TryAgain,
         GiveUp, AnswerWhole, StartStream, Write, ClientLeaves, Rest, asked, Collected
<1>3. stage' \in Past
  BY <1>1 DEF Unreadable, Decode, Prepare, Send, Hear, KiroEnds, CodexEnds, TryAgain,
         GiveUp, AnswerWhole, StartStream, Write, ClientLeaves, Past, Reply, Goto, Collected
<1>4. req' \in Requests /\ req'.admissible = req.admissible
  <2>1. CASE UNCHANGED req
    BY <2>1 DEF IInv
  <2>2. CASE Prepare
    <3>1. PICK name \in ModelNames :
            \/ UNCHANGED req
            \/ /\ ResolveModel(name, Aliases) # Unresolved
               /\ req' = [req EXCEPT !.provider = ResolveModel(name, Aliases).provider]
      BY <2>2 DEF Prepare
    <3>2. ResolveModel(name, Aliases) # Unresolved
            => ResolveModel(name, Aliases).provider \in {"codex", "kiro"}
      BY ResolvedIsKnown
    <3> DEFINE found == ResolveModel(name, Aliases).provider
    <3>3. UNCHANGED req \/ (found \in {"codex", "kiro"} /\ req' = [req EXCEPT !.provider = found])
      BY <3>1, <3>2
    <3> HIDE DEF found
    <3> QED
      BY <3>3 DEF IInv, Requests
  <2>3. CASE Send
    BY <2>3 DEF Send, IInv, Requests
  <2>4. Unreadable \/ Decode \/ Hear => UNCHANGED req
    BY DEF Unreadable, Decode, Hear
  <2>5. KiroEnds \/ CodexEnds \/ TryAgain \/ GiveUp => UNCHANGED req
    BY DEF KiroEnds, CodexEnds, TryAgain, GiveUp, Collected
  <2>6. AnswerWhole \/ StartStream \/ Write \/ ClientLeaves => UNCHANGED req
    BY DEF AnswerWhole, StartStream, Write, ClientLeaves
  <2> QED
    BY <2>1, <2>2, <2>3, <2>4, <2>5, <2>6
<1> QED
  BY <1>1, <1>2, <1>3, <1>4, AfterAdmission DEF IInv, SettingsOK

LEMMA InitHolds == ASSUME Init PROVE IInv
<1>1. SettingsOK /\ stage = "idle"
  BY DEF Init, SettingsOK
<1>2. req \in Requests
  BY DEF Init, Requests, Routes
<1> QED
  BY <1>1, <1>2 DEF IInv, Stages, Judged, ServedIsAllowed

(* No request gets past validateSecurityHeaders that the settings would     *)
(* have kept out at every moment since it arrived, however often the owner  *)
(* changes the key and the mode, which are read apart (routes.go).          *)
THEOREM AdmittedIsAllowed == Spec => []ServedIsAllowed
<1>1. Init => IInv
  BY InitHolds
<1>2. IInv /\ UNCHANGED vars => IInv'
  BY DEF IInv, SettingsOK, Judged, ServedIsAllowed, Admits, vars, asked
<1>3. IInv /\ [Next]_vars => IInv'
  BY <1>2, ArriveKeeps, ReadKeyKeeps, ReadModeKeeps, ChangeKeeps, LaterKeeps DEF Next
<1>4. IInv => ServedIsAllowed
  BY DEF IInv
<1> QED
  BY <1>1, <1>3, <1>4, PTL DEF Spec

-----------------------------------------------------------------------------
(* Lists.  The folds and FlattenSeq are defined by recursion; what they     *)
(* keep is proved from FoldFacts.                                           *)

(* StripThinkingTags strips as often as there are characters. (Induction    *)
(* and the least element are the same in every instance of FoldFacts.)      *)
StripAgain(text, c) == StripOnce(text)

Stripping == INSTANCE FoldFacts WITH Op <- StripAgain

(* The induction this module needs, over a set instead of a predicate. *)
LEMMA Induction ==
  ASSUME NEW S, 0 \in S, \A n \in Nat : n \in S => n + 1 \in S
  PROVE  Nat \subseteq S
BY Stripping!NatSet

(* Min and Max are what they are called. *)
LEMMA Least ==
  ASSUME NEW T, T \subseteq Nat, T # {} PROVE Min(T) \in T /\ \A y \in T : Min(T) <= y
<1>1. \E x \in T : \A y \in T : x <= y
  BY Stripping!LeastOf
<1> QED
  BY <1>1 DEF Min

LEMMA Greatest ==
  ASSUME NEW T, NEW n \in Nat, T \subseteq 0..n, T # {}
  PROVE  Max(T) \in T /\ \A y \in T : Max(T) >= y
<1> DEFINE U == {n - y : y \in T}
<1>1. U \subseteq Nat /\ U # {}
  <2>1. \A y \in T : n - y \in Nat
    OBVIOUS
  <2>2. PICK y \in T : TRUE
    OBVIOUS
  <2>3. n - y \in U
    OBVIOUS
  <2> QED
    BY <2>1, <2>3
<1>2. PICK u \in U : \A v \in U : u <= v
  BY <1>1, Stripping!LeastOf
<1>3. PICK x \in T : u = n - x
  OBVIOUS
<1>4. ASSUME NEW y \in T PROVE x >= y
  <2>1. n - y \in U /\ x \in 0..n /\ y \in 0..n
    OBVIOUS
  <2>2. n - x <= n - y
    BY <1>2, <1>3, <2>1
  <2> QED BY <2>1, <2>2
<1> DEFINE z == CHOOSE z \in T : \A y \in T : z >= y
<1>5. z \in T /\ \A y \in T : z >= y
  BY <1>4
<1>6. Max(T) = z
  BY DEF Max
<1> QED
  BY <1>5, <1>6

(* FlattenSeq adds a list to what it made of those before it.  "Chained"    *)
(* says so of every number of lists up to n, whatever they hold.            *)
Chained(ss, g, n) ==
  g = [i \in 1..n |-> IF i = 1 THEN ss[i] ELSE g[i - 1] \o ss[i]]

LEMMA ChainExists == ASSUME NEW ss, NEW n \in Nat PROVE \E g : Chained(ss, g, n)
<1> DEFINE M == {m \in Nat : \E g : Chained(ss, g, m)}
<1>1. 0 \in M
  <2>1. Chained(ss, [i \in 1..0 |-> <<>>], 0)
    BY DEF Chained
  <2> QED BY <2>1
<1>2. ASSUME NEW m \in Nat, m \in M PROVE m + 1 \in M
  <2>1. PICK g : Chained(ss, g, m)
    BY <1>2
  <2> DEFINE h == [i \in 1..(m + 1) |->
                     IF i = m + 1 THEN IF i = 1 THEN ss[i] ELSE g[i - 1] \o ss[i] ELSE g[i]]
  <2>2. ASSUME NEW i \in 1..(m + 1)
        PROVE  h[i] = IF i = 1 THEN ss[i] ELSE h[i - 1] \o ss[i]
    <3>1. CASE i = m + 1
      <4>1. i # 1 => i - 1 \in 1..m /\ i - 1 \in 1..(m + 1) /\ i - 1 # m + 1
        BY <3>1
      <4> QED BY <3>1, <4>1
    <3>2. CASE i # m + 1
      <4>1. i \in 1..m /\ (i # 1 => i - 1 \in 1..m)
        BY <3>2
      <4>2. g[i] = IF i = 1 THEN ss[i] ELSE g[i - 1] \o ss[i]
        BY <2>1, <4>1 DEF Chained
      <4> QED BY <3>2, <4>1, <4>2
    <3> QED BY <3>1, <3>2
  <2>3. Chained(ss, h, m + 1)
    <3> HIDE DEF h
    <3>1. h = [i \in 1..(m + 1) |-> h[i]]
      BY DEF h
    <3> QED BY <2>2, <3>1 DEF Chained
  <2> QED BY <2>3
<1> QED
  <2> HIDE DEF M
  <2>1. Nat \subseteq M
    BY <1>1, <1>2, Induction
  <2> QED BY <2>1 DEF M

(* The same of lists over S: g[i] is what is made of the first i. *)
LEMMA FlattenChain ==
  ASSUME NEW S, NEW ss \in Seq(Seq(S))
  PROVE  \E g : /\ g[0] = <<>>
                /\ \A i \in 1..Len(ss) : g[i] = g[i - 1] \o ss[i]
                /\ \A i \in 0..Len(ss) : g[i] \in Seq(S)
                /\ g[Len(ss)] = FlattenSeq(ss)
<1> DEFINE n == Len(ss)
           f == CHOOSE f : Chained(ss, f, n)
           g == [i \in 0..n |-> IF i = 0 THEN <<>> ELSE f[i]]
<1>0. n \in Nat /\ \A i \in 1..n : ss[i] \in Seq(S)
  OBVIOUS
<1>1. Chained(ss, f, n)
  BY <1>0, ChainExists
<1>2. n # 0 => FlattenSeq(ss) = f[n]
  BY DEF FlattenSeq, Chained
<1>3. n = 0 => FlattenSeq(ss) = <<>>
  BY DEF FlattenSeq
<1> HIDE DEF f
<1>4. ASSUME NEW i \in 1..n PROVE g[i] = g[i - 1] \o ss[i]
  <2>1. f[i] = IF i = 1 THEN ss[i] ELSE f[i - 1] \o ss[i]
    BY <1>1 DEF Chained
  <2>2. g[i] = f[i] /\ (i # 1 => g[i - 1] = f[i - 1]) /\ g[0] = <<>>
    BY <1>0
  <2>3. <<>> \o ss[i] = ss[i]
    BY <1>0
  <2> HIDE DEF g
  <2>4. CASE i = 1
    <3>1. i - 1 = 0
      BY <2>4
    <3> QED BY <2>1, <2>2, <2>3, <2>4, <3>1
  <2>5. CASE i # 1
    BY <2>1, <2>2, <2>5
  <2> QED BY <2>4, <2>5
<1>5. g[0] = <<>> /\ g[n] = FlattenSeq(ss)
  BY <1>0, <1>2, <1>3
<1> HIDE DEF g
<1> DEFINE M == {i \in Nat : i <= n => g[i] \in Seq(S)}
<1>6. 0 \in M
  <2>1. <<>> \in Seq(S)
    OBVIOUS
  <2> QED BY <1>5, <2>1
<1>7. ASSUME NEW i \in Nat, i \in M PROVE i + 1 \in M
  <2> SUFFICES ASSUME i + 1 <= n PROVE g[i + 1] \in Seq(S)
    OBVIOUS
  <2>1. i + 1 \in 1..n /\ (i + 1) - 1 = i /\ i <= n
    BY <1>0
  <2>2. g[i + 1] = g[i] \o ss[i + 1]
    BY <1>4, <2>1
  <2>3. g[i] \in Seq(S) /\ ss[i + 1] \in Seq(S)
    BY <1>0, <1>7, <2>1
  <2> QED BY <2>2, <2>3
<1>8. Nat \subseteq M
  <2>1. \A i \in Nat : i \in M => i + 1 \in M
    BY <1>7
  <2> HIDE DEF M
  <2> QED BY <1>6, <2>1, Induction
<1>9. \A i \in 0..n : g[i] \in Seq(S)
  BY <1>0, <1>8
<1> HIDE DEF n
<1>10. /\ g[0] = <<>> /\ \A i \in 1..n : g[i] = g[i - 1] \o ss[i]
       /\ \A i \in 0..n : g[i] \in Seq(S)
       /\ g[n] = FlattenSeq(ss)
  BY <1>4, <1>5, <1>9
<1> QED
  BY <1>10 DEF n

LEMMA FlattenInSeq ==
  ASSUME NEW S, NEW ss \in Seq(Seq(S)) PROVE FlattenSeq(ss) \in Seq(S)
<1>1. Len(ss) \in 0..Len(ss)
  OBVIOUS
<1> QED BY <1>1, FlattenChain

(* What it means to put one list after another. *)
LEMMA Joined ==
  ASSUME NEW S, NEW s \in Seq(S), NEW t \in Seq(S)
  PROVE  /\ s \o t \in Seq(S) /\ Len(s \o t) = Len(s) + Len(t)
         /\ DOMAIN (s \o t) = 1..(Len(s) + Len(t))
         /\ Len(s) \in Nat /\ DOMAIN s = 1..Len(s) /\ Len(t) \in Nat /\ DOMAIN t = 1..Len(t)
         /\ \A i \in DOMAIN s : i \in DOMAIN (s \o t) /\ (s \o t)[i] = s[i]
         /\ \A i \in DOMAIN t : Len(s) + i \in DOMAIN (s \o t) /\ (s \o t)[Len(s) + i] = t[i]
         /\ \A i \in DOMAIN (s \o t) :
              i \in DOMAIN s \/ (i - Len(s) \in DOMAIN t /\ (s \o t)[i] = t[i - Len(s)])
OBVIOUS

(* Nothing of the parts is missing from the whole. *)
LEMMA FlattenHas ==
  ASSUME NEW S, NEW ss \in Seq(Seq(S)), NEW i \in DOMAIN ss, NEW j \in DOMAIN ss[i]
  PROVE  \E k \in DOMAIN FlattenSeq(ss) : FlattenSeq(ss)[k] = ss[i][j]
<1>1. PICK g : /\ g[0] = <<>>
               /\ \A k \in 1..Len(ss) : g[k] = g[k - 1] \o ss[k]
               /\ \A k \in 0..Len(ss) : g[k] \in Seq(S)
               /\ g[Len(ss)] = FlattenSeq(ss)
  BY FlattenChain
<1> DEFINE n == Len(ss)
           M == {k \in Nat : i <= k /\ k <= n => \E x \in DOMAIN g[k] : g[k][x] = ss[i][j]}
<1>2. n \in Nat /\ i \in 1..n /\ \A k \in 1..n : ss[k] \in Seq(S)
  OBVIOUS
<1>3. 0 \in M
  BY <1>2
<1>4. ASSUME NEW k \in Nat, k \in M PROVE k + 1 \in M
  <2> SUFFICES ASSUME i <= k + 1, k + 1 <= n
               PROVE  \E x \in DOMAIN g[k + 1] : g[k + 1][x] = ss[i][j]
    OBVIOUS
  <2>1. k + 1 \in 1..n /\ (k + 1) - 1 = k /\ k \in 0..n
    BY <1>2
  <2>2. g[k + 1] = g[k] \o ss[k + 1] /\ g[k] \in Seq(S) /\ ss[k + 1] \in Seq(S)
    BY <1>1, <1>2, <2>1
  <2> DEFINE a == g[k]
             b == ss[k + 1]
             ab == g[k + 1]
  <2>6. ab = a \o b /\ a \in Seq(S) /\ b \in Seq(S)
    BY <2>2
  <2> HIDE DEF a, b, ab
  <2>7. /\ \A x \in DOMAIN a : x \in DOMAIN ab /\ ab[x] = a[x]
        /\ \A x \in DOMAIN b : Len(a) + x \in DOMAIN ab /\ ab[Len(a) + x] = b[x]
    <3>1. ASSUME NEW x \in DOMAIN a PROVE x \in DOMAIN ab /\ ab[x] = a[x]
      BY <2>6
    <3>2. ASSUME NEW x \in DOMAIN b PROVE Len(a) + x \in DOMAIN ab /\ ab[Len(a) + x] = b[x]
      <4>1. x \in 1..Len(b) /\ Len(a) \in Nat /\ Len(b) \in Nat /\ Len(ab) = Len(a) + Len(b)
        BY <2>6
      <4>2. ab \in Seq(S) /\ DOMAIN ab = 1..Len(ab)
        BY <2>6
      <4>3. ab[Len(a) + x] = b[x]
        BY <2>6, <4>1
      <4> QED BY <4>1, <4>2, <4>3
    <3> QED BY <3>1, <3>2
  <2>3. CASE i = k + 1
    <3>1. j \in DOMAIN ss[k + 1]
      BY <2>3
    <3>2. Len(g[k]) + j \in DOMAIN g[k + 1] /\ g[k + 1][Len(g[k]) + j] = ss[k + 1][j]
      BY <2>7, <3>1 DEF a, b, ab
    <3> QED BY <2>3, <3>2
  <2>4. CASE i # k + 1
    <3>1. PICK x \in DOMAIN g[k] : g[k][x] = ss[i][j]
      BY <1>2, <1>4, <2>1, <2>4
    <3>2. x \in DOMAIN g[k + 1] /\ g[k + 1][x] = g[k][x]
      BY <2>7 DEF a, b, ab
    <3> QED BY <3>1, <3>2
  <2> QED BY <2>3, <2>4
<1>5. n \in M
  <2>1. Nat \subseteq M
    <3>1. \A k \in Nat : k \in M => k + 1 \in M
      BY <1>4
    <3> HIDE DEF M
    <3> QED BY <1>3, <3>1, Induction
  <2> QED BY <1>2, <2>1
<1> QED
  BY <1>1, <1>2, <1>5

LEMMA FrontLast ==
  ASSUME NEW S, NEW s \in Seq(S), s # <<>>
  PROVE  /\ Last(s) \in S /\ Front(s) \in Seq(S)
         /\ Len(s) \in Nat \ {0} /\ Len(Front(s)) = Len(s) - 1
         /\ Last(s) = s[Len(s)] /\ \A i \in 1..(Len(s) - 1) : Front(s)[i] = s[i]
<1>1. Len(s) \in Nat /\ Len(s) > 0 /\ Len(s) \in 1..Len(s)
  OBVIOUS
<1>2. Last(s) \in S /\ Last(s) = s[Len(s)]
  BY <1>1 DEF Last
<1>3. Front(s) = SubSeq(s, 1, Len(s) - 1)
  BY DEF Front
<1> DEFINE n == Len(s)
<1>4. n \in Nat /\ n > 0 /\ n - 1 \in Nat /\ 1..n = DOMAIN s
  BY <1>1
<1>7. \A i \in 1..n : s[i] \in S
  BY <1>4
<1> HIDE DEF n
<1>5. SubSeq(s, 1, n - 1) \in Seq(S) /\ Len(SubSeq(s, 1, n - 1)) = n - 1
  BY <1>4, <1>7
<1>6. \A i \in 1..(n - 1) : SubSeq(s, 1, n - 1)[i] = s[i]
  BY <1>4
<1> QED
  BY <1>2, <1>3, <1>4, <1>5, <1>6 DEF n

LEMMA SubSeqIn ==
  ASSUME NEW S, NEW s \in Seq(S), NEW m \in Nat, NEW n \in Int, m >= 1, n <= Len(s)
  PROVE  SubSeq(s, m, n) \in Seq(S)
<1>1. \A i \in 1..Len(s) : s[i] \in S
  OBVIOUS
<1>2. Len(s) \in Nat
  OBVIOUS
<1>3. CASE m <= n
  <2>1. SubSeq(s, m, n) = [i \in 1..(n - m + 1) |-> s[i + m - 1]]
    BY <1>2, <1>3
  <2>2. \A i \in 1..(n - m + 1) : i + m - 1 \in 1..Len(s)
    BY <1>2, <1>3
  <2> DEFINE f == [i \in 1..(n - m + 1) |-> s[i + m - 1]]
             k == n - m + 1
  <2>3. k \in Nat /\ f \in [1..k -> S]
    BY <1>1, <1>3, <2>2
  <2> HIDE DEF f, k
  <2>4. f \in Seq(S)
    BY <2>3
  <2> QED BY <2>1, <2>4 DEF f
<1>4. CASE m > n
  <2>1. SubSeq(s, m, n) = <<>>
    BY <1>2, <1>4
  <2>2. <<>> \in Seq(S)
    OBVIOUS
  <2> QED BY <2>1, <2>2
<1> QED BY <1>3, <1>4

(* A function on 1..n is a list. *)
LEMMA ListOf ==
  ASSUME NEW S, NEW n \in Nat, NEW s \in [1..n -> S]
  PROVE  s \in Seq(S) /\ Len(s) = n /\ DOMAIN s = 1..n
OBVIOUS

(* A list made from another, element by element. *)
LEMMA MapInSeq ==
  ASSUME NEW R, NEW S, NEW s \in Seq(R), NEW t \in [DOMAIN s -> S]
  PROVE  t \in Seq(S) /\ Len(t) = Len(s)
<1>1. Len(s) \in Nat /\ DOMAIN s = 1..Len(s)
  OBVIOUS
<1> QED BY <1>1, ListOf

LEMMA FlattenedType ==
  ASSUME NEW R, NEW S, NEW s \in Seq(R), NEW ss \in [DOMAIN s -> Seq(S)]
  PROVE  FlattenSeq(ss) \in Seq(S)
<1>1. ss \in Seq(Seq(S))
  BY MapInSeq
<1> QED BY <1>1, FlattenInSeq

LEMMA AppendFields ==
  ASSUME NEW S, NEW s \in Seq(S), NEW x \in S
  PROVE  /\ Append(s, x) \in Seq(S) /\ Len(Append(s, x)) = Len(s) + 1 /\ Len(s) \in Nat
         /\ DOMAIN Append(s, x) = 1..(Len(s) + 1) /\ DOMAIN s = 1..Len(s)
         /\ \A i \in 1..Len(s) : Append(s, x)[i] = s[i]
         /\ Append(s, x)[Len(s) + 1] = x
OBVIOUS

LEMMA OneBefore ==
  ASSUME NEW S, NEW x \in S, NEW s \in Seq(S)
  PROVE  /\ <<x>> \o s \in Seq(S) /\ Len(<<x>> \o s) = Len(s) + 1 /\ Len(s) \in Nat
         /\ (<<x>> \o s)[1] = x
         /\ \A i \in 1..Len(s) : (<<x>> \o s)[i + 1] = s[i]
OBVIOUS

(* A part of a list, place by place. *)
LEMMA PartOf ==
  ASSUME NEW S, NEW s \in Seq(S), NEW m \in Nat, m >= 1, NEW n \in Nat, n <= Len(s), m <= n + 1
  PROVE  /\ SubSeq(s, m, n) \in Seq(S) /\ Len(SubSeq(s, m, n)) = (n - m) + 1
         /\ DOMAIN SubSeq(s, m, n) = 1..((n - m) + 1)
         /\ \A i \in 1..((n - m) + 1) : SubSeq(s, m, n)[i] = s[(i + m) - 1]
<1>1. SubSeq(s, m, n) \in Seq(S)
  BY SubSeqIn
<1>2. Len(SubSeq(s, m, n)) = (n - m) + 1 /\ DOMAIN SubSeq(s, m, n) = 1..((n - m) + 1)
  OBVIOUS
<1>3. \A i \in 1..((n - m) + 1) : SubSeq(s, m, n)[i] = s[(i + m) - 1]
  OBVIOUS
<1> QED BY <1>1, <1>2, <1>3

(* The last of a list, and those before it. *)
LEMMA TakenApart ==
  ASSUME NEW S, NEW s \in Seq(S), s # <<>>
  PROVE  Front(s) \in Seq(S) /\ Last(s) \in S /\ s = Append(Front(s), Last(s))
<1>1. /\ Last(s) \in S /\ Front(s) \in Seq(S) /\ Len(s) \in Nat \ {0}
      /\ Len(Front(s)) = Len(s) - 1
      /\ Last(s) = s[Len(s)] /\ \A i \in 1..(Len(s) - 1) : Front(s)[i] = s[i]
  BY FrontLast
<1> DEFINE f == Front(s)
           x == Last(s)
<1> HIDE DEF f, x
<1>2. /\ f \in Seq(S) /\ x \in S /\ Len(f) + 1 = Len(s)
  BY <1>1 DEF f, x
<1>3. /\ Append(f, x) \in Seq(S) /\ Len(Append(f, x)) = Len(s)
      /\ \A i \in 1..Len(f) : Append(f, x)[i] = f[i]
      /\ Append(f, x)[Len(s)] = x
  BY <1>2, AppendFields
<1>4. \A i \in 1..Len(s) : Append(f, x)[i] = s[i]
  BY <1>1, <1>2, <1>3 DEF f, x
<1>5. Append(f, x) = s
  BY <1>3, <1>4
<1> QED BY <1>1, <1>5 DEF f, x

(* A list more, at the end. *)
LEMMA FlattenOneMore ==
  ASSUME NEW S, NEW ss \in Seq(Seq(S)), NEW x \in Seq(S)
  PROVE  FlattenSeq(Append(ss, x)) = FlattenSeq(ss) \o x
<1> DEFINE T == Seq(S)
           tt == Append(ss, x)
           n == Len(ss)
<1>1. /\ tt \in Seq(T) /\ Len(tt) = n + 1 /\ n \in Nat
      /\ \A i \in 1..n : tt[i] = ss[i]
      /\ tt[n + 1] = x
  <2> HIDE DEF T
  <2>1. ss \in Seq(T) /\ x \in T
    BY DEF T
  <2> QED BY <2>1, AppendFields
<1>2. PICK g : /\ g[0] = <<>> /\ \A i \in 1..Len(ss) : g[i] = g[i - 1] \o ss[i]
               /\ g[Len(ss)] = FlattenSeq(ss)
  BY FlattenChain
<1>3. PICK h : /\ h[0] = <<>> /\ \A i \in 1..Len(tt) : h[i] = h[i - 1] \o tt[i]
               /\ h[Len(tt)] = FlattenSeq(tt)
  <2> HIDE DEF tt
  <2> QED BY <1>1, FlattenChain
<1> HIDE DEF tt
<1>4. Nat \subseteq {m \in Nat : m <= n => g[m] = h[m]}
  <2> DEFINE M == {m \in Nat : m <= n => g[m] = h[m]}
  <2>1. 0 \in M
    BY <1>2, <1>3
  <2>2. ASSUME NEW m \in Nat, m \in M PROVE m + 1 \in M
    <3>1. CASE m + 1 <= n
      <4>1. m + 1 \in 1..n /\ m + 1 \in 1..(n + 1) /\ (m + 1) - 1 = m
        BY <3>1, <1>1
      <4>2. g[m + 1] = g[m] \o ss[m + 1] /\ h[m + 1] = h[m] \o tt[m + 1]
        BY <1>1, <1>2, <1>3, <4>1
      <4>3. g[m] = h[m] /\ tt[m + 1] = ss[m + 1]
        BY <1>1, <2>2, <3>1, <4>1
      <4>4. g[m + 1] = h[m + 1]
        BY <4>2, <4>3
      <4> QED BY <4>4
    <3> QED BY <3>1
  <2> HIDE DEF M
  <2>3. Nat \subseteq M
    BY <2>1, <2>2, Induction
  <2> QED BY <2>3 DEF M
<1>5. g[n] = h[n]
  BY <1>1, <1>4
<1>6. h[n + 1] = h[n] \o x
  <2>1. n + 1 \in 1..Len(tt) /\ (n + 1) - 1 = n
    BY <1>1
  <2> QED BY <1>1, <1>3, <2>1
<1> QED BY <1>1, <1>2, <1>3, <1>5, <1>6 DEF tt

LEMMA FlattenNone == FlattenSeq(<<>>) = <<>>
<1>1. <<>> \in Seq(Seq({}))
  OBVIOUS
<1>2. PICK g : g[0] = <<>> /\ g[Len(<<>>)] = FlattenSeq(<<>>)
  BY <1>1, FlattenChain
<1> QED BY <1>2

LEMMA FlattenSingle ==
  ASSUME NEW S, NEW x \in Seq(S) PROVE FlattenSeq(<<x>>) = x
<1>1. <<>> \in Seq(Seq(S)) /\ <<x>> = Append(<<>>, x)
  OBVIOUS
<1>2. FlattenSeq(<<x>>) = <<>> \o x
  BY <1>1, FlattenOneMore, FlattenNone
<1> QED BY <1>2

(* Of lists with nothing in them. *)
LEMMA FlattenBlank ==
  ASSUME NEW S, NEW ss \in Seq(Seq(S)), \A i \in DOMAIN ss : ss[i] = <<>>
  PROVE  FlattenSeq(ss) = <<>>
<1>1. PICK g : /\ g[0] = <<>> /\ \A i \in 1..Len(ss) : g[i] = g[i - 1] \o ss[i]
               /\ g[Len(ss)] = FlattenSeq(ss)
  BY FlattenChain
<1> DEFINE M == {m \in Nat : m <= Len(ss) => g[m] = <<>>}
<1>2. 0 \in M
  BY <1>1
<1>3. ASSUME NEW m \in Nat, m \in M PROVE m + 1 \in M
  <2>1. CASE m + 1 <= Len(ss)
    <3>0. Len(ss) \in Nat /\ DOMAIN ss = 1..Len(ss)
      OBVIOUS
    <3>1. m + 1 \in 1..Len(ss) /\ (m + 1) - 1 = m /\ m <= Len(ss)
      BY <2>1, <3>0
    <3>2. g[m + 1] = <<>> \o <<>>
      BY <1>1, <1>3, <3>0, <3>1
    <3> QED BY <3>2
  <2> QED BY <2>1
<1> HIDE DEF M
<1>4. Nat \subseteq M
  BY <1>2, <1>3, Induction
<1>5. Len(ss) \in Nat
  OBVIOUS
<1> QED BY <1>1, <1>4, <1>5 DEF M

LEMMA FlattenJoins ==
  ASSUME NEW S, NEW ss \in Seq(Seq(S)), NEW tt \in Seq(Seq(S))
  PROVE  FlattenSeq(ss \o tt) = FlattenSeq(ss) \o FlattenSeq(tt)
<1> DEFINE T == Seq(S)
           M == {n \in Nat : \A us \in Seq(T) : Len(us) = n =>
                    FlattenSeq(ss \o us) = FlattenSeq(ss) \o FlattenSeq(us)}
<1>0. FlattenSeq(ss) \in Seq(S)
  BY FlattenInSeq
<1>1. 0 \in M
  <2> SUFFICES ASSUME NEW us \in Seq(T), Len(us) = 0
               PROVE FlattenSeq(ss \o us) = FlattenSeq(ss) \o FlattenSeq(us)
    OBVIOUS
  <2>1. us = <<>>
    OBVIOUS
  <2>2. ss \o <<>> = ss /\ FlattenSeq(ss) \o <<>> = FlattenSeq(ss)
    BY <1>0
  <2> QED BY <2>1, <2>2, FlattenNone
<1>2. ASSUME NEW n \in Nat, n \in M PROVE n + 1 \in M
  <2> SUFFICES ASSUME NEW us \in Seq(T), Len(us) = n + 1
               PROVE FlattenSeq(ss \o us) = FlattenSeq(ss) \o FlattenSeq(us)
    OBVIOUS
  <2> DEFINE f == Front(us)
             x == Last(us)
  <2>1. f \in Seq(T) /\ x \in T /\ us = Append(f, x) /\ Len(f) = n
    <3> HIDE DEF T
    <3>1. us # <<>>
      OBVIOUS
    <3>2. f \in Seq(T) /\ x \in T /\ us = Append(f, x)
      BY <3>1, TakenApart
    <3>3. Len(f) = Len(us) - 1
      BY <3>1, FrontLast
    <3> QED BY <3>2, <3>3
  <2> HIDE DEF f, x
  <2>2. ss \o us = Append(ss \o f, x) /\ ss \o f \in Seq(T)
    BY <2>1
  <2>3. FlattenSeq(ss \o f) = FlattenSeq(ss) \o FlattenSeq(f)
    BY <1>2, <2>1
  <2>4. FlattenSeq(ss \o us) = (FlattenSeq(ss) \o FlattenSeq(f)) \o x
    BY <2>1, <2>2, <2>3, FlattenOneMore
  <2>5. FlattenSeq(us) = FlattenSeq(f) \o x
    BY <2>1, FlattenOneMore
  <2>6. FlattenSeq(f) \in Seq(S)
    BY <2>1, FlattenInSeq
  <2> DEFINE a == FlattenSeq(ss)
             b == FlattenSeq(f)
  <2> HIDE DEF a, b
  <2>7. a \in Seq(S) /\ b \in Seq(S) /\ x \in Seq(S)
    BY <1>0, <2>1, <2>6 DEF a, b
  <2>8. (a \o b) \o x = a \o (b \o x)
    BY <2>7
  <2> QED BY <2>4, <2>5, <2>8 DEF a, b
<1> HIDE DEF M
<1>3. Nat \subseteq M
  BY <1>1, <1>2, Induction
<1>4. tt \in Seq(T) /\ Len(tt) \in Nat
  OBVIOUS
<1> QED BY <1>3, <1>4 DEF M

(* What the first n lists of f make. *)
UpTo(f, n) == FlattenSeq([i \in 1..n |-> f[i]])

LEMMA UpToNone == ASSUME NEW f PROVE UpTo(f, 0) = <<>>
<1>1. [i \in 1..0 |-> f[i]] = <<>>
  OBVIOUS
<1> QED BY <1>1, FlattenNone DEF UpTo

LEMMA UpToSame ==
  ASSUME NEW f, NEW g, NEW n \in Nat, \A i \in 1..n : f[i] = g[i]
  PROVE  UpTo(f, n) = UpTo(g, n)
<1>1. [i \in 1..n |-> f[i]] = [i \in 1..n |-> g[i]]
  OBVIOUS
<1> QED BY <1>1 DEF UpTo

LEMMA UpToType ==
  ASSUME NEW S, NEW f, NEW n \in Nat, \A i \in 1..n : f[i] \in Seq(S)
  PROVE  UpTo(f, n) \in Seq(S)
<1> DEFINE ss == [i \in 1..n |-> f[i]]
           T == Seq(S)
<1>1. ss \in [1..n -> T]
  OBVIOUS
<1>2. UpTo(f, n) = FlattenSeq(ss)
  BY DEF UpTo
<1> HIDE DEF ss
<1>3. ss \in Seq(T)
  <2> HIDE DEF T
  <2> QED BY <1>1, ListOf
<1> QED BY <1>2, <1>3, FlattenInSeq

LEMMA UpToNext ==
  ASSUME NEW S, NEW f, NEW n \in Nat, \A i \in 1..(n + 1) : f[i] \in Seq(S)
  PROVE  UpTo(f, n + 1) = UpTo(f, n) \o f[n + 1]
<1> DEFINE ss == [i \in 1..n |-> f[i]]
           tt == [i \in 1..(n + 1) |-> f[i]]
           T == Seq(S)
           x == f[n + 1]
<1>1. ss \in [1..n -> T] /\ tt \in [1..(n + 1) -> T] /\ x \in T
  OBVIOUS
<1>2. UpTo(f, n) = FlattenSeq(ss) /\ UpTo(f, n + 1) = FlattenSeq(tt)
  BY DEF UpTo
<1>3. \A i \in 1..(n + 1) : tt[i] = IF i = n + 1 THEN x ELSE ss[i]
  OBVIOUS
<1> HIDE DEF ss, tt, x
<1>4. ss \in Seq(T) /\ Len(ss) = n /\ tt \in Seq(T) /\ Len(tt) = n + 1
  <2> HIDE DEF T
  <2>1. ss \in Seq(T) /\ Len(ss) = n
    BY <1>1, ListOf
  <2>2. n + 1 \in Nat
    OBVIOUS
  <2>3. tt \in Seq(T) /\ Len(tt) = n + 1
    BY <1>1, <2>2, ListOf
  <2> QED BY <2>1, <2>3
<1>5. tt = Append(ss, x)
  <2> HIDE DEF T
  <2> DEFINE u == Append(ss, x)
  <2>1. /\ u \in Seq(T) /\ Len(u) = n + 1 /\ \A i \in 1..n : u[i] = ss[i]
        /\ u[n + 1] = x
    BY <1>1, <1>4, AppendFields
  <2> HIDE DEF u
  <2>2. \A i \in 1..(n + 1) : tt[i] = u[i]
    BY <1>3, <2>1
  <2>3. tt = u
    BY <1>4, <2>1, <2>2
  <2> QED BY <2>3 DEF u
<1>6. FlattenSeq(Append(ss, x)) = FlattenSeq(ss) \o x
  BY <1>1, <1>4, FlattenOneMore
<1> QED BY <1>2, <1>5, <1>6 DEF x

(* Of a list that begins with nothing. *)
LEMMA UpToShift ==
  ASSUME NEW S, NEW f, NEW n \in Nat, f[1] = <<>>, \A i \in 1..n : f[i + 1] \in Seq(S)
  PROVE  UpTo(f, n + 1) = FlattenSeq([i \in 1..n |-> f[i + 1]])
<1> DEFINE T == Seq(S)
           tt == [i \in 1..n |-> f[i + 1]]
           ss == [i \in 1..(n + 1) |-> f[i]]
           e == <<<<>>>>
<1>1. tt \in Seq(T) /\ Len(tt) = n
  <2>1. tt \in [1..n -> T]
    OBVIOUS
  <2> HIDE DEF T, tt
  <2> QED BY <2>1, ListOf
<1>2. e \in Seq(T) /\ <<>> \in T
  OBVIOUS
<1>3. ss = e \o tt
  <2> DEFINE u == e \o tt
  <2>1. /\ u \in Seq(T) /\ Len(u) = n + 1 /\ u[1] = <<>>
        /\ \A i \in 1..n : u[i + 1] = tt[i]
    <3> HIDE DEF T, tt
    <3> QED BY <1>1, <1>2, OneBefore
  <2>2. \A i \in 1..n : tt[i] = f[i + 1]
    OBVIOUS
  <2> HIDE DEF u, T, tt
  <2>3. \A i \in 1..(n + 1) : ss[i] = u[i]
    <3> TAKE i \in 1..(n + 1)
    <3>1. CASE i = 1
      BY <2>1, <3>1
    <3>2. CASE i # 1
      <4>1. i - 1 \in 1..n /\ (i - 1) + 1 = i
        BY <3>2
      <4> QED BY <2>1, <2>2, <4>1
    <3> QED BY <3>1, <3>2
  <2>4. DOMAIN ss = 1..(n + 1) /\ ss = [i \in 1..(n + 1) |-> ss[i]]
    OBVIOUS
  <2> HIDE DEF ss
  <2>5. u = [i \in 1..(n + 1) |-> u[i]]
    BY <2>1
  <2>6. ss = u
    BY <2>3, <2>4, <2>5
  <2> QED BY <2>6 DEF u
<1>4. FlattenSeq(e \o tt) = FlattenSeq(e) \o FlattenSeq(tt)
  <2> HIDE DEF e, tt
  <2> QED BY <1>1, <1>2, FlattenJoins
<1>5. FlattenSeq(e) = <<>> /\ FlattenSeq(tt) \in Seq(S)
  <2>1. <<>> \in Seq(S)
    OBVIOUS
  <2> HIDE DEF tt
  <2> QED BY <1>1, <2>1, FlattenSingle, FlattenInSeq
<1>6. <<>> \o FlattenSeq(tt) = FlattenSeq(tt)
  <2> HIDE DEF tt
  <2> QED BY <1>5
<1> QED BY <1>3, <1>4, <1>5, <1>6 DEF UpTo

-----------------------------------------------------------------------------
(* The types of an answer, and the parser of Kiro's events. *)

LEMMA TrimType == ASSUME NEW t \in Texts PROVE TrimSpace(t) \in Texts
<1> DEFINE solid == {i \in DOMAIN t : t[i] # Blank}
<1>1. Len(t) \in Nat /\ DOMAIN t = 1..Len(t) /\ t \in Seq(Characters)
  BY DEF Texts
<1>2. CASE solid = {}
  <2>1. TrimSpace(t) = <<>>
    BY <1>2 DEF TrimSpace
  <2> QED BY <2>1 DEF Texts
<1>3. CASE solid # {}
  <2>1. TrimSpace(t) = SubSeq(t, Min(solid), Max(solid))
    BY <1>3 DEF TrimSpace
  <2>2. solid \subseteq 1..Len(t) /\ solid \subseteq Nat /\ solid \subseteq 0..Len(t)
    BY <1>1
  <2> HIDE DEF solid
  <2>3. Min(solid) \in solid
    BY <1>3, <2>2, Least
  <2>4. Max(solid) \in solid
    BY <1>1, <1>3, <2>2, Greatest
  <2>5. Min(solid) \in Nat /\ Min(solid) >= 1 /\ Max(solid) \in Int /\ Max(solid) <= Len(t)
    <3>1. \A x \in solid : x \in Nat /\ x >= 1 /\ x \in Int /\ x <= Len(t)
      BY <1>1, <2>2
    <3> QED BY <2>3, <2>4, <3>1
  <2>6. SubSeq(t, Min(solid), Max(solid)) \in Seq(Characters)
    BY <1>1, <2>5, SubSeqIn
  <2> QED BY <2>1, <2>6 DEF Texts
<1> QED BY <1>2, <1>3

LEMMA SmallTexts ==
  /\ <<>> \in Texts /\ <<"{", "}">> \in Texts /\ <<"<">> \in Texts /\ <<">">> \in Texts
  /\ "" \in Names
BY DEF Texts, Characters, Names

LEMMA JoinTexts == ASSUME NEW s \in Texts, NEW t \in Texts PROVE s \o t \in Texts
BY DEF Texts

LEMMA InputType == ASSUME NEW t \in Texts PROVE ParsedInput(t) \in Texts
BY SmallTexts DEF ParsedInput, NoInput

(* Renaming the keys of an input leaves an input. *)
LEMMA PlaceType ==
  ASSUME NEW t \in Texts, NEW key, Has(t, key) PROVE PlaceOf(t, key) \in 1..Len(t) - 1
BY DEF Has, PlaceOf

LEMMA ClosingType ==
  ASSUME NEW t \in Texts, NEW x \in Characters, NEW y \in Characters, NEW z \in Characters
  PROVE  SubSeq(t, 1, Len(t) - 1) \o <<x, y, z>> \in Texts
<1>1. Len(t) \in Nat /\ t \in Seq(Characters)
  BY DEF Texts
<1>2. SubSeq(t, 1, Len(t) - 1) \in Seq(Characters)
  BY <1>1, SubSeqIn
<1>3. <<x, y, z>> \in Seq(Characters)
  OBVIOUS
<1> QED BY <1>2, <1>3 DEF Texts

LEMMA CharactersAre ==
  {"}", "path", "file_path", "pattern", "."} \subseteq Characters
BY DEF Characters, InputKeys

LEMMA WithType ==
  ASSUME NEW t \in Texts, NEW x \in Characters, NEW y \in Characters
  PROVE  With(t, x, y) \in Texts
BY ClosingType, CharactersAre, Zenon DEF With

LEMMA MoveType ==
  ASSUME NEW t \in Texts, NEW from, NEW to \in Characters PROVE MoveArg(t, from, to) \in Texts
<1>1. Len(t) \in Nat /\ t \in Seq(Characters)
  BY DEF Texts
<1>2. CASE ~Has(t, from)
  BY <1>2 DEF MoveArg
<1>3. CASE Has(t, from)
  <2> DEFINE i == PlaceOf(t, from)
             r == [t EXCEPT ![i] = to]
  <2>1. i \in 1..Len(t) - 1
    BY <1>3, PlaceType
  <2>2. r \in Texts
    <3> HIDE DEF i
    <3>1. r = [j \in DOMAIN t |-> IF j = i THEN to ELSE t[j]]
      OBVIOUS
    <3>2. \A j \in DOMAIN t : t[j] \in Characters
      BY <1>1
    <3>3. r \in [DOMAIN t -> Characters]
      BY <3>1, <3>2
    <3> HIDE DEF r
    <3> QED BY <1>1, <3>3, MapInSeq DEF Texts
  <2>3. Without(t, from) \in Texts
    <3>1. i - 1 \in Int /\ i + 2 \in Nat /\ i + 2 >= 1 /\ i - 1 <= Len(t)
      BY <1>1, <2>1
    <3> HIDE DEF i
    <3>2. SubSeq(t, 1, i - 1) \in Seq(Characters) /\ SubSeq(t, i + 2, Len(t)) \in Seq(Characters)
      BY <1>1, <3>1, SubSeqIn
    <3>3. SubSeq(t, 1, i - 1) \o SubSeq(t, i + 2, Len(t)) \in Texts
      BY <3>2 DEF Texts
    <3> QED BY <3>3 DEF Without, i
  <2> HIDE DEF r
  <2>4. MoveArg(t, from, to) \in {Without(t, from), r}
    BY <1>3 DEF MoveArg, r
  <2> QED BY <2>2, <2>3, <2>4
<1> QED BY <1>2, <1>3

LEMMA MoveFirstPathType ==
  ASSUME NEW t \in Texts, NEW flag \in BOOLEAN PROVE MoveFirstPath(t, flag) \in Texts
<1>1. "path" \in Characters
  BY CharactersAre
<1>2. CASE Has(t, "path") \/ ~Has(t, "paths")
  BY <1>2 DEF MoveFirstPath
<1>3. CASE ~(Has(t, "path") \/ ~Has(t, "paths"))
  <2> DEFINE path == t[PlaceOf(t, "paths") + 1]
  <2>1. PlaceOf(t, "paths") \in 1..Len(t) - 1
    BY <1>3, PlaceType
  <2>2. path \in Characters
    BY <2>1 DEF Texts
  <2>3. MoveArg(t, "paths", "path") \in Texts /\ With(t, "path", path) \in Texts
    BY <1>1, <2>2, MoveType, WithType
  <2>4. MoveFirstPath(t, flag) \in {t, MoveArg(t, "paths", "path"), With(t, "path", path)}
    BY <1>3 DEF MoveFirstPath
  <2> QED BY <2>3, <2>4
<1> QED BY <1>2, <1>3

LEMMA RemapType ==
  ASSUME NEW t \in Texts, NEW name \in Names PROVE RemapToolCallArgs(name, t) \in Texts
<1> DEFINE once == MoveArg(t, "description", "pattern")
           twice == MoveArg(once, "query", "pattern")
<1>1. {"path", "pattern", "file_path", "."} \subseteq Characters
  BY CharactersAre
<1>2. once \in Texts
  BY <1>1, MoveType
<1> HIDE DEF once
<1>3. twice \in Texts
  BY <1>1, <1>2, MoveType
<1> HIDE DEF twice
<1>4. MoveFirstPath(twice, TRUE) \in Texts /\ MoveFirstPath(t, FALSE) \in Texts
  BY <1>3, MoveFirstPathType
<1>5. MoveArg(t, "path", "file_path") \in Texts /\ With(t, "path", ".") \in Texts
  BY <1>1, MoveType, WithType
<1>6. NoInput \in Texts
  BY SmallTexts DEF NoInput
<1> QED
  BY <1>4, <1>5, <1>6 DEF RemapToolCallArgs, once, twice

LEMMA RekeyedType == ASSUME NEW c \in ToolUses PROVE Rekeyed(c) \in ToolUses
<1> DEFINE input == RemapToolCallArgs(c.name, ParsedInput(c.input))
<1>1. c.name \in Names /\ c.input \in Texts
  BY DEF ToolUses
<1>2. input \in Texts
  BY <1>1, InputType, RemapType
<1>3. Rekeyed(c) = [c EXCEPT !.input = input]
  BY DEF Rekeyed
<1> HIDE DEF input
<1> QED BY <1>2, <1>3 DEF ToolUses

LEMMA FinalizeType == ASSUME NEW p \in Parsers PROVE FinalizeToolCall(p) \in Parsers
<1>1. /\ p.call \in [open : {TRUE}, id : Nat, name : Names, args : Texts] \cup {NoCall}
      /\ p.calls \in Seq(ToolUses)
  BY DEF Parsers
<1>2. CASE ~p.call.open
  BY <1>2 DEF FinalizeToolCall
<1>3. CASE p.call.open
  <2> DEFINE use == ToolUse(p.call.id, p.call.name, ParsedInput(TrimSpace(p.call.args)))
             seen == \E i \in DOMAIN p.calls :
                       p.calls[i].name = use.name /\ p.calls[i].input = use.input
             calls == IF seen THEN p.calls ELSE Append(p.calls, use)
  <2>1. p.call \in [open : {TRUE}, id : Nat, name : Names, args : Texts]
    <3>1. NoCall.open = FALSE
      BY DEF NoCall
    <3> QED BY <1>1, <1>3, <3>1
  <2>2. p.call.id \in Nat /\ p.call.name \in Names /\ p.call.args \in Texts
    BY <2>1
  <2>3. use \in ToolUses
    BY <2>2, TrimType, InputType DEF ToolUse, ToolUses
  <2> HIDE DEF use, seen
  <2>4. calls \in Seq(ToolUses)
    BY <1>1, <2>3
  <2> HIDE DEF calls
  <2>5. [p EXCEPT !.call = NoCall, !.calls = calls] \in Parsers
    BY <2>4 DEF Parsers
  <2>6. FinalizeToolCall(p) = [p EXCEPT !.call = NoCall, !.calls = calls]
    BY <1>3 DEF FinalizeToolCall, calls, seen, use
  <2> QED BY <2>5, <2>6
<1> QED BY <1>2, <1>3

(* Every kind of event, whatever the parser was doing. *)
LEMMA ProcessType ==
  ASSUME NEW p \in Parsers, NEW e \in Events PROVE ProcessEvent(p, e) \in Parsers
<1> DEFINE r == ProcessEvent(p, e)
<1>1. /\ e.piece \in Texts /\ e.id \in Nat /\ e.name \in Names /\ e.stop \in BOOLEAN
  BY DEF Events
<1>2. /\ p.text \in Texts /\ p.thinking \in Texts
      /\ p.call \in [open : {TRUE}, id : Nat, name : Names, args : Texts] \cup {NoCall}
  BY DEF Parsers
<1>3. CASE e.kind = "content" /\ e.piece \notin {<<>>, p.lastContent}
  <2>1. p.text \o e.piece \in Texts
    BY <1>1, <1>2, JoinTexts
  <2> DEFINE t == p.text \o e.piece
  <2>2. r = [p EXCEPT !.lastContent = e.piece, !.text = t]
    BY <1>3 DEF ProcessEvent
  <2> HIDE DEF r, t
  <2>3. r \in Parsers
    BY <1>1, <2>1, <2>2 DEF Parsers, t
  <2> QED BY <2>3 DEF r
<1>4. CASE e.kind = "thinking" /\ e.piece \notin {<<>>, p.lastThinking}
  <2>1. p.thinking \o e.piece \in Texts
    BY <1>1, <1>2, JoinTexts
  <2> DEFINE t == p.thinking \o e.piece
  <2>2. r = [p EXCEPT !.lastThinking = e.piece, !.thinking = t]
    BY <1>4 DEF ProcessEvent
  <2> HIDE DEF r, t
  <2>3. r \in Parsers
    BY <1>1, <2>1, <2>2 DEF Parsers, t
  <2> QED BY <2>3 DEF r
<1>5. CASE e.kind = "tool_start"
  <2> DEFINE call == [open |-> TRUE, id |-> e.id, name |-> e.name, args |-> e.piece]
             q == FinalizeToolCall(p)
             started == [q EXCEPT !.call = call]
  <2>1. r = IF e.stop THEN FinalizeToolCall(started) ELSE started
    BY <1>5 DEF ProcessEvent
  <2>2. q \in Parsers
    BY FinalizeType
  <2>3. call \in [open : {TRUE}, id : Nat, name : Names, args : Texts]
    BY <1>1
  <2> HIDE DEF call, q
  <2>4. started \in Parsers
    BY <2>2, <2>3 DEF Parsers
  <2> HIDE DEF started, r
  <2>5. r \in Parsers
    BY <2>1, <2>4, FinalizeType
  <2> QED BY <2>5 DEF r
<1>6. CASE e.kind = "tool_input" /\ p.call.open
  <2>1. p.call \in [open : {TRUE}, id : Nat, name : Names, args : Texts]
    <3>1. NoCall.open = FALSE
      BY DEF NoCall
    <3> QED BY <1>2, <1>6, <3>1
  <2> DEFINE args == AddInput(p.call.args, e.piece)
             call == [p.call EXCEPT !.args = args]
  <2>2. args \in Texts
    BY <1>1, <2>1, TrimType, JoinTexts DEF AddInput
  <2>3. r = [p EXCEPT !.call = call]
    BY <1>6 DEF ProcessEvent
  <2> HIDE DEF args, r
  <2>4. call \in [open : {TRUE}, id : Nat, name : Names, args : Texts]
    BY <2>1, <2>2
  <2> HIDE DEF call
  <2>5. r \in Parsers
    BY <2>3, <2>4 DEF Parsers
  <2> QED BY <2>5 DEF r
<1>7. CASE e.kind = "tool_stop" /\ e.stop
  <2>1. r = FinalizeToolCall(p)
    BY <1>7 DEF ProcessEvent
  <2> QED BY <2>1, FinalizeType
<1>8. CASE /\ ~(e.kind = "content" /\ e.piece \notin {<<>>, p.lastContent})
           /\ ~(e.kind = "thinking" /\ e.piece \notin {<<>>, p.lastThinking})
           /\ ~(e.kind = "tool_start") /\ ~(e.kind = "tool_input" /\ p.call.open)
           /\ ~(e.kind = "tool_stop" /\ e.stop)
  <2>1. r = p
    BY <1>8 DEF ProcessEvent
  <2> QED BY <2>1
<1> QED
  BY <1>3, <1>4, <1>5, <1>6, <1>7, <1>8

(* An event that comes in two halves is held until the second one is there. *)
LEMMA FeedType ==
  ASSUME NEW p \in Parsers, NEW e \in Events
  PROVE  /\ Feed(p, "whole", e) \in Parsers /\ Feed(p, "head", e) \in Parsers
         /\ Feed(p, "tail", NoHalf) \in Parsers
<1>1. Feed(p, "whole", e) \in Parsers
  BY ProcessType DEF Feed
<1>2. Feed(p, "head", e) \in Parsers
  BY DEF Feed, Parsers
<1>3. Feed(p, "tail", NoHalf) \in Parsers
  <2> DEFINE q == ProcessEvent(p, p.half)
  <2>1. p.half \in Events \/ p.half = NoHalf
    BY DEF Parsers
  <2>2. p.half = NoHalf => q = p
    BY DEF ProcessEvent, NoHalf
  <2>3. q \in Parsers
    BY <2>1, <2>2, ProcessType
  <2>4. Feed(p, "tail", NoHalf) = [q EXCEPT !.half = NoHalf]
    BY DEF Feed
  <2> HIDE DEF q
  <2> QED BY <2>3, <2>4 DEF Parsers
<1> QED BY <1>1, <1>2, <1>3

LEMMA OutcomeFields ==
  ASSUME NEW o \in Outcomes
  PROVE  o.text \in Texts /\ o.thinking \in Texts /\ o.calls \in Seq(ToolUses)
BY DEF Outcomes

LEMMA OutcomeWithText ==
  ASSUME NEW o \in Outcomes, NEW t \in Texts
  PROVE  [o EXCEPT !.text = t] \in Outcomes /\ [o EXCEPT !.thinking = t] \in Outcomes
BY DEF Outcomes

LEMMA OutcomeWithCalls ==
  ASSUME NEW o \in Outcomes, NEW calls \in Seq(ToolUses)
  PROVE  [o EXCEPT !.calls = calls] \in Outcomes
BY DEF Outcomes

LEMMA Nothing == CollectorInit \in Outcomes /\ Silence \in Outcomes /\ ParserInit \in Parsers
<1>1. <<>> \in Texts /\ <<>> \in Seq(ToolUses)
  BY DEF Texts
<1> QED
  BY <1>1 DEF CollectorInit, Silence, ParserInit, Outcomes, Parsers

LEMMA MidTyped == Mid \in MidsWith({<<>>}) /\ Mid \in Mids
<1>1. <<>> \in Texts /\ <<>> \in Seq(ToolUses)
      /\ <<>> \in Seq([said : Outcomes, mid : MidsWith({<<>>})])
  BY DEF Texts
<1> QED
  BY <1>1 DEF Mid, Mids, MidsWith

-----------------------------------------------------------------------------
(* Scripts.  The calls made on a stream come in the order of their ranks:   *)
(* beginning, thinking, mark, text, end of the text, tool calls, end.       *)

(* The pieces a text is sent in. *)
LEMMA ChunkType ==
  ASSUME NEW t \in Texts, NEW size \in Nat \ {0} PROVE ChunkText(t, size) \in Seq(Texts)
<1> DEFINE n == Len(t)
           m == (n + size - 1) \div size
           last(k) == Min({k * size, n})
           f == [k \in 1..m |-> SubSeq(t, (k - 1) * size + 1, last(k))]
<1>1. n \in Nat /\ t \in Seq(Characters)
  BY DEF Texts
<1>2. ChunkText(t, size) = IF n <= size THEN IF IsBlank(t) THEN <<>> ELSE <<t>> ELSE f
  BY DEF ChunkText
<1>3. m \in Nat
  <2> HIDE DEF n
  <2>1. n + size - 1 \in Nat
    BY <1>1
  <2> QED BY <2>1
<1>4. ASSUME NEW k \in 1..m PROVE SubSeq(t, (k - 1) * size + 1, last(k)) \in Texts
  <2> HIDE DEF m, n
  <2>0. k \in Nat /\ k >= 1
    BY <1>3
  <2>1. k * size \in Nat /\ (k - 1) * size \in Nat
    <3>1. \A x \in Nat : x * size \in Nat
      OBVIOUS
    <3>2. k - 1 \in Nat
      BY <2>0
    <3> QED BY <2>0, <3>1, <3>2
  <2> DEFINE T == {k * size, n}
  <2>2. T \subseteq Nat /\ T # {}
    BY <1>1, <2>1
  <2>3. Min(T) \in T /\ \A y \in T : Min(T) <= y
    <3> HIDE DEF T
    <3> QED BY <2>2, Least
  <2>4. last(k) \in Int /\ last(k) <= n
    BY <1>1, <2>1, <2>3
  <2>5. (k - 1) * size + 1 \in Nat /\ (k - 1) * size + 1 >= 1
    BY <2>1
  <2> DEFINE a == (k - 1) * size + 1
             b == last(k)
  <2>6. a \in Nat /\ a >= 1 /\ b \in Int /\ b <= Len(t)
    BY <2>4, <2>5 DEF n
  <2> HIDE DEF a, b
  <2>7. SubSeq(t, a, b) \in Seq(Characters)
    BY <1>1, <2>6, SubSeqIn
  <2> QED BY <2>7 DEF Texts, a, b
<1>5. f \in [1..m -> Texts]
  BY <1>4
<1> HIDE DEF f, m, n
<1>6. f \in Seq(Texts)
  BY <1>3, <1>5, ListOf
<1>7. <<t>> \in Seq(Texts) /\ <<>> \in Seq(Texts)
  OBVIOUS
<1> QED BY <1>2, <1>6, <1>7

(* When a call may come. *)
Rank(op) ==
  CASE op \in {"start", "role"} -> 0
    [] op \in {"think", "reasoning"} -> 1
    [] op = "prepare" -> 2
    [] op = "text" -> 3
    [] op = "close" -> 4
    [] op = "call" -> 5
    [] op \in {"complete", "finish"} -> 6

OpNames == {"start", "role", "think", "reasoning", "prepare", "text", "close", "call",
            "complete", "finish"}

OpsOf(s) == {s[i].op : i \in DOMAIN s}

(* The calls have ranks from lo to hi, never fall, and do not repeat but    *)
(* where a text, a thought or the tool calls are sent one by one.           *)
Between(s, lo, hi) ==
  /\ s \in Seq(Ops)
  /\ \A i \in DOMAIN s : Rank(s[i].op) \in lo..hi
  /\ \A i, j \in DOMAIN s : i < j =>
       \/ Rank(s[i].op) < Rank(s[j].op)
       \/ Rank(s[i].op) = Rank(s[j].op) /\ Rank(s[i].op) \in {1, 3, 5}

LEMMA RankType == ASSUME NEW op \in OpNames PROVE Rank(op) \in 0..6
BY DEF Rank, OpNames

(* A list of later calls after a list of earlier ones. *)
LEMMA BetweenJoins ==
  ASSUME NEW s, NEW t, NEW a \in Nat, NEW b \in Nat, NEW c \in Nat, NEW d \in Nat,
         Between(s, a, b), Between(t, c, d), a <= b, b < c, c <= d
  PROVE  Between(s \o t, a, d) /\ OpsOf(s \o t) = OpsOf(s) \cup OpsOf(t)
<1> DEFINE u == s \o t
           n == Len(s)
<1>1. s \in Seq(Ops) /\ t \in Seq(Ops)
  BY DEF Between
<1>2. /\ u \in Seq(Ops) /\ n \in Nat /\ DOMAIN s = 1..n
      /\ DOMAIN u = 1..(n + Len(t)) /\ Len(t) \in Nat /\ DOMAIN t = 1..Len(t)
      /\ \A i \in DOMAIN s : i \in DOMAIN u /\ u[i] = s[i]
      /\ \A i \in DOMAIN t : n + i \in DOMAIN u /\ u[n + i] = t[i]
      /\ \A i \in DOMAIN u : i \in DOMAIN s \/ (i - n \in DOMAIN t /\ u[i] = t[i - n])
  BY SMTT(30), <1>1, Joined
<1> HIDE DEF u, n
<1>3. \A i \in DOMAIN s : Rank(s[i].op) \in a..b
  BY DEF Between
<1>4. \A i \in DOMAIN t : Rank(t[i].op) \in c..d
  BY DEF Between
<1>5. \A i \in DOMAIN u : Rank(u[i].op) \in a..d
  BY <1>2, <1>3, <1>4
<1>6. ASSUME NEW i \in DOMAIN u, NEW j \in DOMAIN u, i < j
      PROVE  \/ Rank(u[i].op) < Rank(u[j].op)
             \/ Rank(u[i].op) = Rank(u[j].op) /\ Rank(u[i].op) \in {1, 3, 5}
  <2>1. CASE i \in DOMAIN s /\ j \in DOMAIN s
    BY <1>2, <1>6, <2>1 DEF Between
  <2>2. CASE i \in DOMAIN s /\ j \notin DOMAIN s
    <3>1. Rank(u[i].op) \in a..b /\ Rank(u[j].op) \in c..d
      BY <1>2, <1>3, <1>4, <2>2
    <3> QED BY <3>1
  <2>3. CASE i \notin DOMAIN s
    <3>1. i - n \in DOMAIN t /\ j - n \in DOMAIN t /\ i - n < j - n /\ u[i] = t[i - n]
          /\ u[j] = t[j - n]
      BY <1>2, <1>6, <2>3
    <3> QED BY <3>1 DEF Between
  <2> QED BY <2>1, <2>2, <2>3
<1>7. Between(u, a, d)
  BY <1>2, <1>5, <1>6 DEF Between
<1>8. OpsOf(u) = OpsOf(s) \cup OpsOf(t)
  <2>1. OpsOf(s) \subseteq OpsOf(u) /\ OpsOf(t) \subseteq OpsOf(u)
    BY <1>2 DEF OpsOf
  <2>2. OpsOf(u) \subseteq OpsOf(s) \cup OpsOf(t)
    BY <1>2 DEF OpsOf
  <2> QED BY <2>1, <2>2
<1> QED BY <1>7, <1>8 DEF u

LEMMA NoUseType == NoUse \in ToolUses
BY SmallTexts DEF NoUse, ToolUse, ToolUses

LEMMA OpType ==
  ASSUME NEW op \in OpNames, NEW chunk \in Texts, NEW call \in ToolUses
  PROVE  Op(op, chunk, call) \in Ops /\ Op(op, chunk, call).op = op
BY DEF Op, Ops, OpNames

LEMMA BetweenNone ==
  ASSUME NEW a \in Nat, NEW b \in Nat PROVE Between(<<>>, a, b) /\ OpsOf(<<>>) = {}
<1>1. <<>> \in Seq(Ops) /\ DOMAIN <<>> = {}
  OBVIOUS
<1> QED BY <1>1 DEF Between, OpsOf

LEMMA BetweenOne ==
  ASSUME NEW op \in OpNames
  PROVE  /\ Between(<<Op(op, <<>>, NoUse)>>, Rank(op), Rank(op))
         /\ OpsOf(<<Op(op, <<>>, NoUse)>>) = {op}
<1> DEFINE e == Op(op, <<>>, NoUse)
           s == <<e>>
<1>1. e \in Ops /\ e.op = op
  BY OpType, NoUseType, SmallTexts
<1>2. Rank(op) \in 0..6
  BY RankType
<1> HIDE DEF e
<1>3. s \in Seq(Ops) /\ DOMAIN s = {1} /\ s[1] = e
  BY <1>1
<1> HIDE DEF s
<1>4. Between(s, Rank(op), Rank(op)) /\ OpsOf(s) = {op}
  BY <1>1, <1>2, <1>3 DEF Between, OpsOf
<1> QED BY <1>4 DEF s, e

(* A run of the same call. *)
LEMMA BetweenRun ==
  ASSUME NEW op \in OpNames, Rank(op) \in {1, 3, 5}, NEW s \in Seq(Ops),
         \A i \in DOMAIN s : s[i].op = op
  PROVE  Between(s, Rank(op), Rank(op)) /\ OpsOf(s) \subseteq {op}
BY DEF Between, OpsOf

LEMMA ValidType == ASSUME NEW t \in Texts PROVE ToValidJSON(t) \in Texts
<1>1. t \in Seq(Characters) /\ Broken \in Characters
  BY DEF Texts, Characters
<1>2. \A i \in DOMAIN t : t[i] \in Characters
  BY <1>1
<1>3. ToValidJSON(t) \in [DOMAIN t -> Characters]
  BY <1>1, <1>2 DEF ToValidJSON
<1> QED BY <1>1, <1>3, MapInSeq DEF Texts

LEMMA BetweenChunks ==
  ASSUME NEW op \in OpNames, Rank(op) \in {1, 3, 5}, NEW t \in Texts, NEW size \in Nat \ {0}
  PROVE  /\ Between(Chunks(op, t, size), Rank(op), Rank(op))
         /\ OpsOf(Chunks(op, t, size)) \subseteq {op}
<1> DEFINE chunks == ChunkText(t, size)
           sent == [i \in DOMAIN chunks |-> ToValidJSON(chunks[i])]
           s == [i \in DOMAIN chunks |-> Op(op, sent[i], NoUse)]
<1>1. chunks \in Seq(Texts)
  BY ChunkType
<1>2. Chunks(op, t, size) = s
  BY DEF Chunks
<1> HIDE DEF chunks
<1>3. \A i \in DOMAIN chunks : sent[i] \in Texts
  BY <1>1, ValidType
<1> HIDE DEF sent
<1>4. \A i \in DOMAIN chunks : Op(op, sent[i], NoUse) \in Ops /\ Op(op, sent[i], NoUse).op = op
  BY <1>3, OpType, NoUseType
<1>5. s \in [DOMAIN chunks -> Ops] /\ DOMAIN s = DOMAIN chunks /\ \A i \in DOMAIN s : s[i].op = op
  BY <1>4
<1> HIDE DEF s
<1>6. s \in Seq(Ops)
  BY <1>1, <1>5, MapInSeq
<1> QED BY <1>2, <1>5, <1>6, BetweenRun

LEMMA BetweenCalls ==
  ASSUME NEW calls \in Seq(ToolUses)
  PROVE  Between(Calls("call", calls), 5, 5) /\ OpsOf(Calls("call", calls)) \subseteq {"call"}
<1> DEFINE s == [i \in DOMAIN calls |-> Op("call", <<>>, calls[i])]
<1>1. Calls("call", calls) = s
  BY DEF Calls
<1>2. \A i \in DOMAIN calls : calls[i] \in ToolUses
  OBVIOUS
<1>3. "call" \in OpNames /\ Rank("call") = 5 /\ <<>> \in Texts
  BY SmallTexts DEF OpNames, Rank
<1>4. \A i \in DOMAIN calls : Op("call", <<>>, calls[i]) \in Ops /\ Op("call", <<>>, calls[i]).op = "call"
  BY <1>2, <1>3, OpType
<1>5. s \in [DOMAIN calls -> Ops] /\ DOMAIN s = DOMAIN calls /\ \A i \in DOMAIN s : s[i].op = "call"
  BY <1>4
<1> HIDE DEF s
<1>6. s \in Seq(Ops)
  BY <1>5, MapInSeq
<1> DEFINE op == "call"
<1>7. op \in OpNames /\ Rank(op) = 5 /\ \A i \in DOMAIN s : s[i].op = op
  BY <1>3, <1>5
<1> HIDE DEF op
<1>8. Between(s, 5, 5) /\ OpsOf(s) \subseteq {op}
  BY <1>6, <1>7, BetweenRun
<1> QED BY <1>1, <1>8 DEF op

(* A script from anywhere in it to its last call. *)
Flows(s) == Between(s, 0, 6) /\ s # <<>> /\ Rank(s[Len(s)].op) = 6

LEMMA FlowsToEnd ==
  ASSUME NEW s, Between(s, 0, 5), NEW op \in {"complete", "finish"}
  PROVE  /\ Flows(s \o <<Op(op, <<>>, NoUse)>>)
         /\ OpsOf(s \o <<Op(op, <<>>, NoUse)>>) = OpsOf(s) \cup {op}
<1> DEFINE t == <<Op(op, <<>>, NoUse)>>
           u == s \o t
<1>1. op \in OpNames /\ Rank(op) = 6
  BY DEF OpNames, Rank
<1>2. Between(t, 6, 6) /\ OpsOf(t) = {op}
  BY <1>1, BetweenOne
<1>3. Len(t) = 1 /\ t[1].op = op
  BY DEF Op
<1> HIDE DEF t
<1>4. Between(u, 0, 6) /\ OpsOf(u) = OpsOf(s) \cup OpsOf(t)
  BY <1>2, BetweenJoins
<1>5. s \in Seq(Ops) /\ t \in Seq(Ops)
  BY <1>2 DEF Between
<1>6. Len(u) = Len(s) + 1 /\ u[Len(u)] = t[1] /\ Len(s) \in Nat
  <2>1. Len(s) \in Nat /\ Len(s) >= 0
    BY <1>5
  <2>2. Len(u) = Len(s) + Len(t) /\ \A i \in DOMAIN t : u[Len(s) + i] = t[i]
    BY <1>5, Joined
  <2>3. 1 \in DOMAIN t
    BY <1>3, <1>5
  <2> HIDE DEF u
  <2>4. Len(u) = Len(s) + 1 /\ u[Len(s) + 1] = t[1]
    BY <1>3, <2>2, <2>3
  <2> QED BY <2>1, <2>4
<1>7. u # <<>>
  BY <1>6
<1> HIDE DEF u
<1>8. Rank(u[Len(u)].op) = 6
  BY <1>1, <1>3, <1>6
<1> QED BY <1>2, <1>4, <1>7, <1>8 DEF Flows, u, t

Ranks == /\ Rank("start") = 0 /\ Rank("role") = 0 /\ Rank("think") = 1 /\ Rank("reasoning") = 1
         /\ Rank("prepare") = 2 /\ Rank("text") = 3 /\ Rank("close") = 4 /\ Rank("call") = 5
         /\ Rank("complete") = 6 /\ Rank("finish") = 6

LEMMA RanksAre == Ranks
BY DEF Ranks, Rank

ChatOps == {"role", "think", "text", "call", "finish"}

ResponsesOps == {"start", "reasoning", "text", "close", "call", "complete"}

MessagesOps == {"start", "think", "prepare", "text", "close", "call", "complete"}

(* The parts every script is made of. *)
LEMMA ScriptParts ==
  ASSUME NEW r \in Responses, NEW size \in Nat \ {0}
  PROVE  /\ Between(Chunks("think", r.thinking, size), 1, 1)
         /\ OpsOf(Chunks("think", r.thinking, size)) \subseteq {"think"}
         /\ Between(Chunks("reasoning", r.thinking, size), 1, 1)
         /\ OpsOf(Chunks("reasoning", r.thinking, size)) \subseteq {"reasoning"}
         /\ Between(Chunks("text", r.text, size), 3, 3)
         /\ OpsOf(Chunks("text", r.text, size)) \subseteq {"text"}
         /\ Between(Calls("call", r.calls), 5, 5)
         /\ OpsOf(Calls("call", r.calls)) \subseteq {"call"}
<1>1. r.text \in Texts /\ r.thinking \in Texts /\ r.calls \in Seq(ToolUses)
  BY DEF Responses
<1>2. "think" \in OpNames /\ "reasoning" \in OpNames /\ "text" \in OpNames
  BY DEF OpNames
<1>3. Rank("think") = 1 /\ Rank("reasoning") = 1 /\ Rank("text") = 3
  BY RanksAre DEF Ranks
<1>4. \A op \in OpNames : Rank(op) \in {1, 3, 5} => \A t \in Texts :
        /\ Between(Chunks(op, t, size), Rank(op), Rank(op))
        /\ OpsOf(Chunks(op, t, size)) \subseteq {op}
  BY BetweenChunks
<1>5. /\ Between(Chunks("think", r.thinking, size), 1, 1)
      /\ OpsOf(Chunks("think", r.thinking, size)) \subseteq {"think"}
  BY <1>1, <1>2, <1>3, <1>4
<1>6. /\ Between(Chunks("reasoning", r.thinking, size), 1, 1)
      /\ OpsOf(Chunks("reasoning", r.thinking, size)) \subseteq {"reasoning"}
  BY <1>1, <1>2, <1>3, <1>4
<1>7. /\ Between(Chunks("text", r.text, size), 3, 3)
      /\ OpsOf(Chunks("text", r.text, size)) \subseteq {"text"}
  BY <1>1, <1>2, <1>3, <1>4
<1> QED BY <1>1, <1>5, <1>6, <1>7, BetweenCalls

LEMMA BetweenFirst ==
  ASSUME NEW op \in {"start", "role", "prepare", "close"}
  PROVE  /\ Between(<<Op(op, <<>>, NoUse)>>, Rank(op), Rank(op))
         /\ OpsOf(<<Op(op, <<>>, NoUse)>>) = {op}
<1>1. op \in OpNames
  BY DEF OpNames
<1> QED BY <1>1, BetweenOne

LEMMA ChatFlows ==
  ASSUME NEW r \in Responses, NEW size \in Nat \ {0}
  PROVE  Flows(StreamOpenAIChat(r, size)) /\ OpsOf(StreamOpenAIChat(r, size)) \subseteq ChatOps
<1> DEFINE a == <<Op("role", <<>>, NoUse)>>
           b == Chunks("think", r.thinking, size)
           c == Chunks("text", r.text, size)
           d == Calls("call", r.calls)
           e == <<Op("finish", <<>>, NoUse)>>
<1>1. Between(a, 0, 0) /\ OpsOf(a) = {"role"}
  BY BetweenFirst, RanksAre DEF Ranks
<1>2. Between(b, 1, 1) /\ OpsOf(b) \subseteq {"think"} /\ Between(c, 3, 3) /\ OpsOf(c) \subseteq {"text"}
      /\ Between(d, 5, 5) /\ OpsOf(d) \subseteq {"call"}
  BY ScriptParts
<1>3. StreamOpenAIChat(r, size) = (((a \o b) \o c) \o d) \o e
  BY DEF StreamOpenAIChat
<1>4. \A s : Between(s, 0, 5) => Flows(s \o e) /\ OpsOf(s \o e) = OpsOf(s) \cup {"finish"}
  BY FlowsToEnd
<1> HIDE DEF a, b, c, d, e
<1>5. Between(a \o b, 0, 1) /\ OpsOf(a \o b) = OpsOf(a) \cup OpsOf(b)
  BY <1>1, <1>2, BetweenJoins
<1>6. Between((a \o b) \o c, 0, 3) /\ OpsOf((a \o b) \o c) = OpsOf(a \o b) \cup OpsOf(c)
  BY <1>2, <1>5, BetweenJoins
<1>7. Between(((a \o b) \o c) \o d, 0, 5)
      /\ OpsOf(((a \o b) \o c) \o d) = OpsOf((a \o b) \o c) \cup OpsOf(d)
  BY <1>2, <1>6, BetweenJoins
<1>8. Flows((((a \o b) \o c) \o d) \o e)
      /\ OpsOf((((a \o b) \o c) \o d) \o e) = OpsOf(((a \o b) \o c) \o d) \cup {"finish"}
  BY <1>4, <1>7
<1> QED BY <1>1, <1>2, <1>3, <1>5, <1>6, <1>7, <1>8 DEF ChatOps

LEMMA BetweenWider == ASSUME NEW s, Between(s, 1, 3) PROVE Between(s, 0, 5)
<1>1. s \in Seq(Ops) /\ \A i \in DOMAIN s : Rank(s[i].op) \in 0..5
  BY DEF Between
<1> QED BY <1>1 DEF Between

LEMMA CompletionsFlow ==
  ASSUME NEW r \in Responses, NEW size \in Nat \ {0}
  PROVE  /\ Flows(StreamOpenAICompletions(r, size))
         /\ OpsOf(StreamOpenAICompletions(r, size)) \subseteq ChatOps
<1> DEFINE b == Chunks("think", r.thinking, size)
           c == Chunks("text", r.text, size)
           e == <<Op("finish", <<>>, NoUse)>>
           none == <<>>
<1>1. Between(b, 1, 1) /\ OpsOf(b) \subseteq {"think"} /\ Between(c, 3, 3) /\ OpsOf(c) \subseteq {"text"}
  BY ScriptParts
<1>2. StreamOpenAICompletions(r, size) = (b \o c) \o e
  BY DEF StreamOpenAICompletions
<1>3. \A s : Between(s, 0, 5) => Flows(s \o e) /\ OpsOf(s \o e) = OpsOf(s) \cup {"finish"}
  BY FlowsToEnd
<1> HIDE DEF b, c, e
<1>4. Between(b \o c, 1, 3) /\ OpsOf(b \o c) = OpsOf(b) \cup OpsOf(c)
  BY <1>1, BetweenJoins
<1>5. Between(b \o c, 0, 5)
  BY <1>4, BetweenWider
<1>6. Flows((b \o c) \o e) /\ OpsOf((b \o c) \o e) = OpsOf(b \o c) \cup {"finish"}
  BY <1>3, <1>5
<1> QED BY <1>1, <1>2, <1>4, <1>6 DEF ChatOps

LEMMA ResponsesFlow ==
  ASSUME NEW r \in Responses, NEW size \in Nat \ {0}
  PROVE  LET s == StreamOpenAIResponses(r, size)
         IN /\ Flows(s) /\ OpsOf(s) \subseteq ResponsesOps
            /\ "text" \in OpsOf(s) => "close" \in OpsOf(s)
<1> DEFINE a == <<Op("start", <<>>, NoUse)>>
           b == Chunks("reasoning", r.thinking, size)
           c == Chunks("text", r.text, size)
           f == <<Op("close", <<>>, NoUse)>>
           d == Calls("call", r.calls)
           e == <<Op("complete", <<>>, NoUse)>>
           none == <<>>
           middle == IF HasMessageItem(r) THEN (b \o c) \o f ELSE none
<1>1. Between(a, 0, 0) /\ OpsOf(a) = {"start"} /\ Between(f, 4, 4) /\ OpsOf(f) = {"close"}
  BY BetweenFirst, RanksAre DEF Ranks
<1>2. Between(b, 1, 1) /\ OpsOf(b) \subseteq {"reasoning"} /\ Between(c, 3, 3) /\ OpsOf(c) \subseteq {"text"}
      /\ Between(d, 5, 5) /\ OpsOf(d) \subseteq {"call"}
  BY ScriptParts
<1>3. StreamOpenAIResponses(r, size) = ((a \o middle) \o d) \o e
  BY DEF StreamOpenAIResponses
<1>4. \A s : Between(s, 0, 5) => Flows(s \o e) /\ OpsOf(s \o e) = OpsOf(s) \cup {"complete"}
  BY FlowsToEnd
<1>5. Between(none, 1, 4) /\ OpsOf(none) = {}
  BY BetweenNone
<1> HIDE DEF a, b, c, d, e, f, none
<1>6. Between(b \o c, 1, 3) /\ OpsOf(b \o c) = OpsOf(b) \cup OpsOf(c)
  BY <1>2, BetweenJoins
<1>7. Between((b \o c) \o f, 1, 4) /\ OpsOf((b \o c) \o f) = OpsOf(b \o c) \cup OpsOf(f)
  BY <1>1, <1>6, BetweenJoins
<1>8. /\ Between(middle, 1, 4) /\ OpsOf(middle) \subseteq {"reasoning", "text", "close"}
      /\ "text" \in OpsOf(middle) => "close" \in OpsOf(middle)
  BY <1>1, <1>2, <1>5, <1>6, <1>7
<1> HIDE DEF middle
<1>9. Between(a \o middle, 0, 4) /\ OpsOf(a \o middle) = OpsOf(a) \cup OpsOf(middle)
  BY <1>1, <1>8, BetweenJoins
<1>10. Between((a \o middle) \o d, 0, 5)
       /\ OpsOf((a \o middle) \o d) = OpsOf(a \o middle) \cup OpsOf(d)
  BY <1>2, <1>9, BetweenJoins
<1>11. Flows(((a \o middle) \o d) \o e)
       /\ OpsOf(((a \o middle) \o d) \o e) = OpsOf((a \o middle) \o d) \cup {"complete"}
  BY <1>4, <1>10
<1> DEFINE s == ((a \o middle) \o d) \o e
<1>12. OpsOf(s) = {"start"} \cup OpsOf(middle) \cup OpsOf(d) \cup {"complete"}
  BY <1>1, <1>9, <1>10, <1>11
<1>13. OpsOf(s) \subseteq ResponsesOps
  BY <1>2, <1>8, <1>12 DEF ResponsesOps
<1>14. "text" \in OpsOf(s) => "close" \in OpsOf(s)
  BY <1>2, <1>8, <1>12
<1> QED BY <1>3, <1>11, <1>13, <1>14

LEMMA MessagesFlow ==
  ASSUME NEW r \in Responses, NEW size \in Nat \ {0}
  PROVE  LET s == StreamAnthropicMessages(r, size)
         IN /\ Flows(s) /\ OpsOf(s) \subseteq MessagesOps
            /\ "think" \in OpsOf(s) => "prepare" \in OpsOf(s)
            /\ "text" \in OpsOf(s) => "close" \in OpsOf(s)
<1> DEFINE a == <<Op("start", <<>>, NoUse)>>
           b == Chunks("think", r.thinking, size)
           g == <<Op("prepare", <<>>, NoUse)>>
           c == Chunks("text", r.text, size)
           f == <<Op("close", <<>>, NoUse)>>
           d == Calls("call", r.calls)
           e == <<Op("complete", <<>>, NoUse)>>
           none == <<>>
           thinking == IF IsBlank(r.thinking) THEN none ELSE b \o g
           speech == IF IsBlank(r.text) THEN none ELSE c \o f
<1>1. /\ Between(a, 0, 0) /\ OpsOf(a) = {"start"} /\ Between(f, 4, 4) /\ OpsOf(f) = {"close"}
      /\ Between(g, 2, 2) /\ OpsOf(g) = {"prepare"}
  BY BetweenFirst, RanksAre DEF Ranks
<1>2. Between(b, 1, 1) /\ OpsOf(b) \subseteq {"think"} /\ Between(c, 3, 3) /\ OpsOf(c) \subseteq {"text"}
      /\ Between(d, 5, 5) /\ OpsOf(d) \subseteq {"call"}
  BY ScriptParts
<1>3. StreamAnthropicMessages(r, size) = (((a \o thinking) \o speech) \o d) \o e
  BY DEF StreamAnthropicMessages
<1>4. \A s : Between(s, 0, 5) => Flows(s \o e) /\ OpsOf(s \o e) = OpsOf(s) \cup {"complete"}
  BY FlowsToEnd
<1>5. Between(none, 1, 2) /\ Between(none, 3, 4) /\ OpsOf(none) = {}
  BY BetweenNone
<1> HIDE DEF a, b, c, d, e, f, g, none
<1>6. Between(b \o g, 1, 2) /\ OpsOf(b \o g) = OpsOf(b) \cup OpsOf(g)
  BY <1>1, <1>2, BetweenJoins
<1>7. Between(c \o f, 3, 4) /\ OpsOf(c \o f) = OpsOf(c) \cup OpsOf(f)
  BY <1>1, <1>2, BetweenJoins
<1>8. /\ Between(thinking, 1, 2) /\ OpsOf(thinking) \subseteq {"think", "prepare"}
      /\ "think" \in OpsOf(thinking) => "prepare" \in OpsOf(thinking)
  BY <1>1, <1>2, <1>5, <1>6
<1>9. /\ Between(speech, 3, 4) /\ OpsOf(speech) \subseteq {"text", "close"}
      /\ "text" \in OpsOf(speech) => "close" \in OpsOf(speech)
  BY <1>1, <1>2, <1>5, <1>7
<1> HIDE DEF thinking, speech
<1>10. Between(a \o thinking, 0, 2) /\ OpsOf(a \o thinking) = OpsOf(a) \cup OpsOf(thinking)
  BY <1>1, <1>8, BetweenJoins
<1>11. Between((a \o thinking) \o speech, 0, 4)
       /\ OpsOf((a \o thinking) \o speech) = OpsOf(a \o thinking) \cup OpsOf(speech)
  BY <1>9, <1>10, BetweenJoins
<1>12. Between(((a \o thinking) \o speech) \o d, 0, 5)
       /\ OpsOf(((a \o thinking) \o speech) \o d) = OpsOf((a \o thinking) \o speech) \cup OpsOf(d)
  BY <1>2, <1>11, BetweenJoins
<1> DEFINE s == (((a \o thinking) \o speech) \o d) \o e
<1>13. Flows(s) /\ OpsOf(s) = OpsOf(((a \o thinking) \o speech) \o d) \cup {"complete"}
  BY <1>4, <1>12
<1>14. OpsOf(s) = {"start"} \cup OpsOf(thinking) \cup OpsOf(speech) \cup OpsOf(d) \cup {"complete"}
  BY <1>1, <1>10, <1>11, <1>12, <1>13
<1>15. OpsOf(s) \subseteq MessagesOps
  BY <1>2, <1>8, <1>9, <1>14 DEF MessagesOps
<1>16. "think" \in OpsOf(s) => "prepare" \in OpsOf(s)
  BY <1>2, <1>8, <1>9, <1>14
<1>17. "text" \in OpsOf(s) => "close" \in OpsOf(s)
  BY <1>2, <1>8, <1>9, <1>14
<1> QED BY <1>3, <1>13, <1>15, <1>16, <1>17

(* One call done, the rest of the script to come. *)
LEMMA FlowsOn ==
  ASSUME NEW s, Flows(s)
  PROVE  /\ Head(s) \in Ops /\ Head(s).op \in OpsOf(s) /\ Len(s) \in Nat \ {0}
         /\ Rank(Head(s).op) = 6 <=> Len(s) = 1
         /\ Len(s) > 1 => Flows(Tail(s))
         /\ Tail(s) \in Seq(Ops) /\ DOMAIN Tail(s) = 1..(Len(s) - 1)
         /\ OpsOf(s) = {Head(s).op} \cup OpsOf(Tail(s))
         /\ \A op \in OpsOf(Tail(s)) :
              \/ Rank(Head(s).op) < Rank(op)
              \/ Rank(Head(s).op) = Rank(op) /\ Rank(op) \in {1, 3, 5}
<1> DEFINE t == Tail(s)
           n == Len(s)
<1>1. s \in Seq(Ops) /\ s # <<>>
  BY DEF Flows, Between
<1>2. n \in Nat /\ n >= 1 /\ DOMAIN s = 1..n
  BY <1>1
<1>3. /\ t \in Seq(Ops) /\ DOMAIN t = 1..(n - 1) /\ \A i \in 1..(n - 1) : t[i] = s[i + 1]
      /\ Head(s) = s[1] /\ s[1] \in Ops /\ Len(t) = n - 1
  BY <1>1, <1>2
<1>4. \A i \in DOMAIN s : Rank(s[i].op) \in 0..6
  BY DEF Flows, Between
<1>5. \A i, j \in DOMAIN s : i < j =>
        \/ Rank(s[i].op) < Rank(s[j].op)
        \/ Rank(s[i].op) = Rank(s[j].op) /\ Rank(s[i].op) \in {1, 3, 5}
  BY DEF Flows, Between
<1>6. Rank(s[n].op) = 6
  BY DEF Flows
<1> HIDE DEF t, n
<1>7. OpsOf(s) = {s[1].op} \cup OpsOf(t)
  <2>1. s[1].op \in OpsOf(s)
    BY <1>2 DEF OpsOf
  <2>2. OpsOf(t) \subseteq OpsOf(s)
    <3> SUFFICES ASSUME NEW i \in 1..(n - 1) PROVE t[i].op \in OpsOf(s)
      BY <1>3 DEF OpsOf
    <3>1. i + 1 \in DOMAIN s /\ t[i] = s[i + 1]
      BY <1>2, <1>3
    <3> QED BY <3>1 DEF OpsOf
  <2>3. OpsOf(s) \subseteq {s[1].op} \cup OpsOf(t)
    <3> SUFFICES ASSUME NEW i \in DOMAIN s, i # 1 PROVE s[i].op \in OpsOf(t)
      BY DEF OpsOf
    <3>1. i - 1 \in DOMAIN t /\ t[i - 1] = s[i]
      BY <1>2, <1>3
    <3> QED BY <3>1 DEF OpsOf
  <2> QED BY <2>1, <2>2, <2>3
<1>8. n > 1 => Rank(s[1].op) < 6
  BY <1>2, <1>4, <1>5, <1>6
<1>9. \A op \in OpsOf(t) : \/ Rank(s[1].op) < Rank(op)
                           \/ Rank(s[1].op) = Rank(op) /\ Rank(op) \in {1, 3, 5}
  <2> SUFFICES ASSUME NEW i \in 1..(n - 1)
               PROVE  \/ Rank(s[1].op) < Rank(t[i].op)
                      \/ Rank(s[1].op) = Rank(t[i].op) /\ Rank(t[i].op) \in {1, 3, 5}
    BY <1>3 DEF OpsOf
  <2>1. i + 1 \in DOMAIN s /\ t[i] = s[i + 1] /\ 1 \in DOMAIN s /\ 1 < i + 1
    BY <1>2, <1>3
  <2> QED BY <1>5, <2>1
<1>10. n > 1 => Flows(t)
  <2> SUFFICES ASSUME n > 1 PROVE Flows(t)
    OBVIOUS
  <2>1. \A i \in DOMAIN t : i + 1 \in DOMAIN s /\ t[i] = s[i + 1]
    BY <1>2, <1>3
  <2>2. \A i \in DOMAIN t : Rank(t[i].op) \in 0..6
    BY <1>4, <2>1
  <2>3. \A i, j \in DOMAIN t : i < j =>
          \/ Rank(t[i].op) < Rank(t[j].op)
          \/ Rank(t[i].op) = Rank(t[j].op) /\ Rank(t[i].op) \in {1, 3, 5}
    <3> SUFFICES ASSUME NEW i \in DOMAIN t, NEW j \in DOMAIN t, i < j
                 PROVE  \/ Rank(t[i].op) < Rank(t[j].op)
                        \/ Rank(t[i].op) = Rank(t[j].op) /\ Rank(t[i].op) \in {1, 3, 5}
      OBVIOUS
    <3>1. i + 1 < j + 1
      BY <1>2, <1>3
    <3> QED BY <1>5, <2>1, <3>1
  <2>4. t[Len(t)] = s[n] /\ t # <<>>
    <3>1. n - 1 \in 1..(n - 1) /\ (n - 1) + 1 = n
      BY <1>2
    <3> QED BY <1>3, <3>1
  <2> QED BY <1>3, <1>6, <2>2, <2>3, <2>4 DEF Flows, Between
<1>11. Rank(s[1].op) = 6 <=> n = 1
  BY <1>2, <1>6, <1>8
<1> QED BY <1>2, <1>3, <1>7, <1>9, <1>10, <1>11 DEF t, n

-----------------------------------------------------------------------------
(* Frames.  BlocksNest of any list of frames, and what keeps it as one is   *)
(* added.                                                                   *)

(* OpenBefore and BlocksNest, for any list of frames. *)
Bounds(fs, i) == {j \in 1..(i - 1) : fs[j].type \in {"open", "close"}}

OpenIn(fs, i) ==
  IF Bounds(fs, i) # {} /\ fs[Max(Bounds(fs, i))].type = "open"
  THEN fs[Max(Bounds(fs, i))].index ELSE NoIndex

Fits(fs, i) ==
  CASE fs[i].type = "open" ->
         /\ OpenIn(fs, i) = NoIndex
         /\ \A j \in 1..(i - 1) : fs[j].index < fs[i].index
    [] fs[i].type = "end" -> OpenIn(fs, i) = NoIndex /\ i = Len(fs)
    [] fs[i].type = "begin" -> i = 1
    [] fs[i].type = "close" -> fs[i].index # NoIndex /\ OpenIn(fs, i) = fs[i].index
    [] OTHER -> fs[i].index \in {NoIndex, OpenIn(fs, i)}

Nests(fs) == \A i \in DOMAIN fs : Fits(fs, i)

LEMMA NestsIsBlocksNest == BlocksNest <=> Nests(frames)
<1>1. \A i : OpenBefore(i) = OpenIn(frames, i)
  BY DEF OpenBefore, OpenIn, Bounds
<1> QED BY <1>1 DEF BlocksNest, Nests, Fits

(* What was sent, while it can still go on: "block" is open, the numbers    *)
(* from "next" on are free.                                                 *)
Shape(fs, block, next) ==
  /\ fs \in Seq(Frames) /\ Nests(fs)
  /\ \A i \in DOMAIN fs : fs[i].type # "end" /\ fs[i].index < next
  /\ OpenIn(fs, Len(fs) + 1) = block
  /\ next \in Nat /\ block \in Nat \cup {NoIndex} /\ block < next

LEMMA Grown ==
  ASSUME NEW fs \in Seq(Frames), NEW f \in Frames
  PROVE  /\ fs \o <<f>> \in Seq(Frames) /\ Len(fs \o <<f>>) = Len(fs) + 1
         /\ DOMAIN fs = 1..Len(fs) /\ Len(fs) \in Nat
         /\ DOMAIN (fs \o <<f>>) = DOMAIN fs \cup {Len(fs) + 1}
         /\ (fs \o <<f>>)[Len(fs) + 1] = f
         /\ \A i \in DOMAIN fs : (fs \o <<f>>)[i] = fs[i]
<1>1. <<f>> \in Seq(Frames) /\ Len(<<f>>) = 1 /\ DOMAIN <<f>> = {1} /\ <<f>>[1] = f
  OBVIOUS
<1> DEFINE t == <<f>>
<1>2. t \in Seq(Frames) /\ Len(t) = 1 /\ DOMAIN t = {1} /\ t[1] = f
  BY <1>1
<1> HIDE DEF t
<1> DEFINE u == fs \o t
<1>5. /\ u \in Seq(Frames) /\ Len(u) = Len(fs) + Len(t)
      /\ DOMAIN u = 1..(Len(fs) + Len(t))
      /\ Len(fs) \in Nat /\ DOMAIN fs = 1..Len(fs)
      /\ \A i \in DOMAIN fs : u[i] = fs[i]
      /\ \A i \in DOMAIN t : u[Len(fs) + i] = t[i]
  BY <1>2, Joined
<1> HIDE DEF u
<1>3. /\ u \in Seq(Frames) /\ Len(u) = Len(fs) + 1
      /\ DOMAIN fs = 1..Len(fs) /\ Len(fs) \in Nat
      /\ DOMAIN u = 1..(Len(fs) + 1)
      /\ u[Len(fs) + 1] = f
      /\ \A i \in DOMAIN fs : u[i] = fs[i]
  BY <1>2, <1>5
<1>4. 1..(Len(fs) + 1) = (1..Len(fs)) \cup {Len(fs) + 1}
  <2>1. Len(fs) \in Nat
    BY <1>3
  <2> QED BY <2>1
<1> QED BY <1>3, <1>4 DEF t, u

(* A frame more changes what is open only after it. *)
LEMMA OpenGrows ==
  ASSUME NEW fs \in Seq(Frames), NEW f \in Frames
  PROVE  /\ \A i \in 1..(Len(fs) + 1) : OpenIn(fs \o <<f>>, i) = OpenIn(fs, i)
         /\ f.type = "open" => OpenIn(fs \o <<f>>, Len(fs) + 2) = f.index
         /\ f.type = "close" => OpenIn(fs \o <<f>>, Len(fs) + 2) = NoIndex
         /\ f.type \notin {"open", "close"} =>
              OpenIn(fs \o <<f>>, Len(fs) + 2) = OpenIn(fs, Len(fs) + 1)
<1> DEFINE gs == fs \o <<f>>
           n == Len(fs)
<1>1. /\ n \in Nat /\ DOMAIN fs = 1..n /\ gs[n + 1] = f
      /\ \A i \in 1..n : gs[i] = fs[i]
  BY Grown
<1> HIDE DEF gs, n
<1>2. ASSUME NEW i \in 1..(n + 1) PROVE OpenIn(gs, i) = OpenIn(fs, i)
  <2>1. \A j \in 1..(i - 1) : j \in 1..n
    BY <1>1
  <2>2. Bounds(gs, i) = Bounds(fs, i)
    BY <1>1, <2>1 DEF Bounds
  <2>3. Bounds(fs, i) # {} => Max(Bounds(fs, i)) \in Bounds(fs, i)
    <3>1. Bounds(fs, i) \subseteq 0..n
      BY <2>1 DEF Bounds
    <3> QED BY <1>1, <3>1, Greatest
  <2>4. Bounds(fs, i) # {} => gs[Max(Bounds(fs, i))] = fs[Max(Bounds(fs, i))]
    BY <1>1, <2>1, <2>3 DEF Bounds
  <2> QED BY <2>2, <2>4 DEF OpenIn
<1>3. CASE f.type \in {"open", "close"}
  <2>1. n + 1 \in Bounds(gs, n + 2) /\ Bounds(gs, n + 2) \subseteq 0..(n + 1)
    BY <1>1, <1>3 DEF Bounds
  <2>2. Max(Bounds(gs, n + 2)) = n + 1
    <3> DEFINE T == Bounds(gs, n + 2)
    <3>1. n + 1 \in T /\ T \subseteq 0..(n + 1) /\ n + 1 \in Nat
      BY <1>1, <2>1
    <3> HIDE DEF T
    <3>2. Max(T) \in T /\ \A y \in T : Max(T) >= y
      BY <3>1, Greatest
    <3>3. Max(T) \in 0..(n + 1) /\ Max(T) >= n + 1
      BY <3>1, <3>2
    <3>4. Max(T) = n + 1
      BY <1>1, <3>3
    <3> QED BY <3>4 DEF T
  <2>3. OpenIn(gs, n + 2) = IF f.type = "open" THEN f.index ELSE NoIndex
    BY <1>1, <2>1, <2>2 DEF OpenIn
  <2> QED BY <1>2, <1>3, <2>3 DEF gs, n
<1>4. CASE f.type \notin {"open", "close"}
  <2>1. Bounds(gs, n + 2) = Bounds(gs, n + 1)
    <3>1. \A j \in 1..(n + 1) : j \in 1..n \/ j = n + 1
      BY <1>1
    <3>2. (n + 2) - 1 = n + 1 /\ (n + 1) - 1 = n /\ \A j \in 1..n : j \in 1..(n + 1)
      BY <1>1
    <3> QED BY <1>1, <1>4, <3>1, <3>2 DEF Bounds
  <2>2. OpenIn(gs, n + 2) = OpenIn(gs, n + 1)
    BY <2>1 DEF OpenIn
  <2>3. n + 1 \in 1..(n + 1)
    BY <1>1
  <2>4. OpenIn(gs, n + 2) = OpenIn(fs, n + 1)
    BY <1>2, <2>2, <2>3
  <2> QED BY <1>2, <1>4, <2>4 DEF gs, n
<1> QED BY <1>3, <1>4

(* The frames before it are as they were. *)
LEMMA StillNests ==
  ASSUME NEW fs \in Seq(Frames), NEW f \in Frames, Nests(fs),
         \A i \in DOMAIN fs : fs[i].type # "end",
         Fits(fs \o <<f>>, Len(fs) + 1)
  PROVE  Nests(fs \o <<f>>)
<1> DEFINE gs == fs \o <<f>>
           n == Len(fs)
<1>1. /\ n \in Nat /\ DOMAIN fs = 1..n /\ DOMAIN gs = DOMAIN fs \cup {n + 1}
      /\ \A i \in 1..n : gs[i] = fs[i]
  BY Grown
<1>2. \A i \in 1..(n + 1) : OpenIn(gs, i) = OpenIn(fs, i)
  BY OpenGrows
<1> HIDE DEF gs, n
<1>3. ASSUME NEW i \in DOMAIN fs PROVE Fits(gs, i)
  <2>1. gs[i] = fs[i] /\ fs[i].type # "end" /\ \A j \in 1..(i - 1) : gs[j] = fs[j]
    BY <1>1
  <2>2. OpenIn(gs, i) = OpenIn(fs, i)
    BY <1>1, <1>2
  <2>3. Fits(fs, i)
    BY DEF Nests
  <2> QED BY <2>1, <2>2, <2>3 DEF Fits
<1>4. Fits(gs, n + 1)
  BY DEF gs, n
<1>5. Nests(gs)
  BY <1>1, <1>3, <1>4 DEF Nests
<1> QED BY <1>5 DEF gs

LEMMA BareFrame ==
  ASSUME NEW type \in {"begin", "open", "think", "text", "call", "sign", "close", "end"},
         NEW index \in Nat \cup {NoIndex}
  PROVE  /\ Frame(type, index, <<>>, NoUse) \in Frames
         /\ Frame(type, index, <<>>, NoUse).type = type
         /\ Frame(type, index, <<>>, NoUse).index = index
<1>1. <<>> \in Texts /\ NoUse \in ToolUses
  BY NoUseType, SmallTexts
<1> QED BY <1>1 DEF Frame, Frames

(* One frame more, of any type. *)
LEMMA ShapeGrows ==
  ASSUME NEW fs, NEW block, NEW next, Shape(fs, block, next),
         NEW f \in Frames, f.type # "end", Fits(fs \o <<f>>, Len(fs) + 1),
         NEW next2 \in Nat, next <= next2, f.index < next2,
         NEW block2 \in Nat \cup {NoIndex}, block2 < next2,
         OpenIn(fs \o <<f>>, Len(fs) + 2) = block2
  PROVE  Shape(fs \o <<f>>, block2, next2)
<1> DEFINE gs == fs \o <<f>>
           n == Len(fs)
<1>1. /\ fs \in Seq(Frames) /\ Nests(fs) /\ next \in Nat
      /\ \A i \in DOMAIN fs : fs[i].type # "end" /\ fs[i].index < next
  BY DEF Shape
<1>2. /\ n \in Nat /\ DOMAIN fs = 1..n /\ DOMAIN gs = DOMAIN fs \cup {n + 1}
      /\ \A i \in 1..n : gs[i] = fs[i]
      /\ gs[n + 1] = f /\ Len(gs) = n + 1 /\ gs \in Seq(Frames)
  BY <1>1, Grown
<1>3. Nests(gs)
  BY <1>1, StillNests
<1>4. OpenIn(gs, n + 2) = block2
  OBVIOUS
<1> HIDE DEF gs, n
<1>5. \A i \in DOMAIN fs : fs[i].index \in Int
  <2>1. \A i \in DOMAIN fs : fs[i] \in Frames
    BY <1>1
  <2> QED BY <2>1 DEF Frames, NoIndex
<1>6. \A i \in DOMAIN gs : gs[i].type # "end" /\ gs[i].index < next2
  <2>1. ASSUME NEW i \in DOMAIN fs PROVE gs[i].type # "end" /\ gs[i].index < next2
    BY <1>1, <1>2, <1>5
  <2> QED BY <1>2, <2>1
<1>7. OpenIn(gs, Len(gs) + 1) = block2
  <2>1. Len(gs) + 1 = n + 2
    BY <1>2
  <2> QED BY <1>4, <2>1
<1>8. Shape(gs, block2, next2)
  BY <1>2, <1>3, <1>6, <1>7 DEF Shape
<1> QED BY <1>8 DEF gs

LEMMA LastFits ==
  ASSUME NEW fs, NEW block, NEW next, Shape(fs, block, next), NEW f \in Frames
  PROVE  /\ Len(fs) \in Nat
         /\ (fs \o <<f>>)[Len(fs) + 1] = f /\ OpenIn(fs \o <<f>>, Len(fs) + 1) = block
         /\ Len(fs \o <<f>>) = Len(fs) + 1
         /\ \A j \in 1..((Len(fs) + 1) - 1) :
              (fs \o <<f>>)[j] = fs[j] /\ (fs \o <<f>>)[j].index < next
<1>1. /\ fs \in Seq(Frames) /\ OpenIn(fs, Len(fs) + 1) = block
      /\ \A i \in DOMAIN fs : fs[i].index < next
  BY DEF Shape
<1> DEFINE gs == fs \o <<f>>
           n == Len(fs)
<1>2. /\ n \in Nat /\ DOMAIN fs = 1..n /\ Len(gs) = n + 1
      /\ \A i \in 1..n : gs[i] = fs[i]
      /\ gs[n + 1] = f
  BY <1>1, Grown
<1>3. n + 1 \in 1..(n + 1) /\ (n + 1) - 1 = n
  BY <1>2
<1>4. OpenIn(gs, n + 1) = OpenIn(fs, n + 1)
  BY <1>1, <1>3, OpenGrows
<1> QED BY <1>1, <1>2, <1>3, <1>4

(* One frame more, by its type. *)
LEMMA ShapeOpen ==
  ASSUME NEW fs, NEW next, Shape(fs, NoIndex, next)
  PROVE  Shape(fs \o <<Frame("open", next, <<>>, NoUse)>>, next, next + 1)
<1> DEFINE f == Frame("open", next, <<>>, NoUse)
<1>1. fs \in Seq(Frames) /\ next \in Nat
  BY DEF Shape
<1>2. f \in Frames /\ f.type = "open" /\ f.index = next
  BY <1>1, BareFrame
<1> HIDE DEF f
<1>3. Fits(fs \o <<f>>, Len(fs) + 1)
  BY <1>2, LastFits DEF Fits
<1>4. OpenIn(fs \o <<f>>, Len(fs) + 2) = next
  BY <1>1, <1>2, OpenGrows
<1>5. next + 1 \in Nat /\ next <= next + 1 /\ next < next + 1
  BY <1>1
<1> DEFINE next2 == next + 1
<1>6. next2 \in Nat /\ next <= next2 /\ f.index < next2 /\ next < next2
  BY <1>2, <1>5
<1> HIDE DEF next2
<1>7. Shape(fs \o <<f>>, next, next2)
  BY <1>1, <1>2, <1>3, <1>4, <1>6, ShapeGrows
<1> QED BY <1>7 DEF f, next2

LEMMA ShapeIn ==
  ASSUME NEW fs, NEW block, NEW next, Shape(fs, block, next),
         NEW type \in {"think", "text", "call", "sign"}, NEW index \in {NoIndex, block},
         NEW delta \in Texts, NEW call \in ToolUses
  PROVE  Shape(fs \o <<Frame(type, index, delta, call)>>, block, next)
<1> DEFINE f == Frame(type, index, delta, call)
<1>1. /\ fs \in Seq(Frames) /\ next \in Nat /\ block \in Nat \cup {NoIndex} /\ block < next
  BY DEF Shape
<1>2. f \in Frames /\ f.type = type /\ f.index = index
  BY <1>1 DEF Frame, Frames
<1> HIDE DEF f
<1>3. Fits(fs \o <<f>>, Len(fs) + 1)
  BY <1>2, LastFits DEF Fits
<1>4. OpenIn(fs \o <<f>>, Len(fs) + 2) = block
  <2>1. OpenIn(fs \o <<f>>, Len(fs) + 2) = OpenIn(fs, Len(fs) + 1)
    BY <1>1, <1>2, OpenGrows
  <2> QED BY <2>1 DEF Shape
<1>5. next <= next /\ f.index < next
  BY <1>1, <1>2 DEF NoIndex
<1> QED BY <1>1, <1>2, <1>3, <1>4, <1>5, ShapeGrows DEF f

LEMMA ShapeClose ==
  ASSUME NEW fs, NEW block \in Nat, NEW next, Shape(fs, block, next)
  PROVE  Shape(fs \o <<Frame("close", block, <<>>, NoUse)>>, NoIndex, next)
<1> DEFINE f == Frame("close", block, <<>>, NoUse)
<1>1. fs \in Seq(Frames) /\ next \in Nat /\ block < next
  BY DEF Shape
<1>2. f \in Frames /\ f.type = "close" /\ f.index = block
  BY BareFrame
<1> HIDE DEF f
<1>3. NoIndex \in Nat \cup {NoIndex} /\ block # NoIndex /\ NoIndex < next
  BY <1>1 DEF NoIndex
<1>4. Fits(fs \o <<f>>, Len(fs) + 1)
  BY <1>2, <1>3, LastFits DEF Fits
<1>5. OpenIn(fs \o <<f>>, Len(fs) + 2) = NoIndex
  BY <1>1, <1>2, OpenGrows
<1>6. next <= next /\ f.index < next
  BY <1>1, <1>2
<1> QED BY <1>1, <1>2, <1>3, <1>4, <1>5, <1>6, ShapeGrows DEF f

LEMMA ShapeNone == Shape(<<>>, NoIndex, 0)
<1>1. <<>> \in Seq(Frames) /\ DOMAIN <<>> = {} /\ Len(<<>>) = 0
  OBVIOUS
<1>2. Bounds(<<>>, 1) = {}
  BY DEF Bounds
<1>3. OpenIn(<<>>, Len(<<>>) + 1) = NoIndex
  BY <1>1, <1>2 DEF OpenIn
<1>4. NoIndex < 0 /\ 0 \in Nat
  BY DEF NoIndex
<1> QED BY <1>1, <1>3, <1>4 DEF Shape, Nests

LEMMA ShapeWider ==
  ASSUME NEW fs, NEW block, NEW next, Shape(fs, block, next), NEW next2 \in Nat, next <= next2
  PROVE  Shape(fs, block, next2)
<1>1. \A i \in DOMAIN fs : fs[i].index \in Int
  <2>1. \A i \in DOMAIN fs : fs[i] \in Frames
    BY DEF Shape
  <2> QED BY <2>1 DEF Frames, NoIndex
<1>2. next \in Nat /\ block \in Int
  BY DEF Shape, NoIndex
<1> QED BY <1>1, <1>2 DEF Shape

LEMMA ShapeBegin ==
  ASSUME NEW next, Shape(<<>>, NoIndex, next)
  PROVE  Shape(<<>> \o <<Frame("begin", NoIndex, <<>>, NoUse)>>, NoIndex, next)
<1> DEFINE f == Frame("begin", NoIndex, <<>>, NoUse)
           fs == <<>>
<1>0. fs \in Seq(Frames) /\ Len(fs) = 0 /\ Shape(fs, NoIndex, next)
  OBVIOUS
<1>1. next \in Nat /\ NoIndex < next /\ NoIndex \in Nat \cup {NoIndex}
  BY DEF Shape
<1>2. f \in Frames /\ f.type = "begin" /\ f.index = NoIndex
  <2>1. \A index \in Nat \cup {NoIndex} :
          /\ Frame("begin", index, <<>>, NoUse) \in Frames
          /\ Frame("begin", index, <<>>, NoUse).type = "begin"
          /\ Frame("begin", index, <<>>, NoUse).index = index
    BY BareFrame
  <2> QED BY <1>1, <2>1
<1> HIDE DEF f, fs
<1>3. Fits(fs \o <<f>>, Len(fs) + 1)
  BY <1>0, <1>2, LastFits DEF Fits
<1>4. OpenIn(fs \o <<f>>, Len(fs) + 2) = NoIndex
  <2>1. OpenIn(fs \o <<f>>, Len(fs) + 2) = OpenIn(fs, Len(fs) + 1)
    BY <1>0, <1>2, OpenGrows
  <2> QED BY <1>0, <2>1 DEF Shape
<1>5. next <= next
  BY <1>1
<1> QED BY <1>0, <1>1, <1>2, <1>3, <1>4, <1>5, ShapeGrows DEF f, fs

LEMMA ShapeEnds ==
  ASSUME NEW fs, NEW next, Shape(fs, NoIndex, next)
  PROVE  /\ Nests(fs \o <<Frame("end", NoIndex, <<>>, NoUse)>>)
         /\ fs \o <<Frame("end", NoIndex, <<>>, NoUse)>> \in Seq(Frames)
<1> DEFINE f == Frame("end", NoIndex, <<>>, NoUse)
<1>1. /\ fs \in Seq(Frames) /\ Nests(fs) /\ NoIndex \in Nat \cup {NoIndex}
      /\ \A i \in DOMAIN fs : fs[i].type # "end"
  BY DEF Shape
<1>2. f \in Frames /\ f.type = "end"
  BY <1>1, BareFrame
<1> HIDE DEF f
<1>3. Fits(fs \o <<f>>, Len(fs) + 1)
  BY <1>2, LastFits DEF Fits
<1>4. Nests(fs \o <<f>>) /\ fs \o <<f>> \in Seq(Frames)
  BY <1>1, <1>2, <1>3, StillNests, Grown
<1> QED BY <1>4 DEF f

LEMMA Pair == ASSUME NEW S, NEW a \in S, NEW b \in S PROVE <<a>> \o <<b>> = <<a, b>>
<1> DEFINE u == <<a>> \o <<b>>
  v == <<a, b>>
<1>1. u \in Seq(S) /\ Len(u) = 2 /\ u[1] = a /\ u[2] = b
  OBVIOUS
<1>2. v \in Seq(S) /\ Len(v) = 2 /\ v[1] = a /\ v[2] = b
  OBVIOUS
<1> HIDE DEF u, v
<1>3. DOMAIN u = 1..2 /\ DOMAIN v = 1..2 
  BY <1>1, <1>2
<1>4. \A i \in 1..2 : u[i] = v[i]
  BY <1>1, <1>2
<1>5. u = v
  BY <1>1, <1>2, <1>3, <1>4
<1> QED BY <1>5 DEF u, v

LEMMA Triple == ASSUME NEW S, NEW a \in S, NEW b \in S, NEW c \in S PROVE <<a, b>> \o <<c>> = <<a, b, c>>
<1> DEFINE u == <<a, b>> \o <<c>>
  v == <<a, b, c>>
<1>1. u \in Seq(S) /\ Len(u) = 3 /\ u[1] = a /\ u[2] = b /\ u[3] = c
  OBVIOUS
<1>2. v \in Seq(S) /\ Len(v) = 3 /\ v[1] = a /\ v[2] = b /\ v[3] = c
  OBVIOUS
<1> HIDE DEF u, v
<1>3. DOMAIN u = 1..3 /\ DOMAIN v = 1..3
  BY <1>1, <1>2
<1>4. \A i \in 1..3 : u[i] = v[i]
  <2>1. \A i \in 1..3 : i \in {1, 2, 3}
    OBVIOUS
  <2> QED BY <1>1, <1>2, <2>1
<1>5. u = v
  BY <1>1, <1>2, <1>3, <1>4
<1> QED BY <1>5 DEF u, v

LEMMA Associates ==
  ASSUME NEW S, NEW s \in Seq(S), NEW t \in Seq(S), NEW u \in Seq(S)
  PROVE  (s \o t) \o u = s \o (t \o u)
OBVIOUS

(* Frames sent together are frames sent one by one. *)
LEMMA OneByOne ==
  ASSUME NEW fs \in Seq(Frames), NEW a \in Frames, NEW b \in Frames, NEW c \in Frames
  PROVE  /\ (fs \o <<a>>) \o <<b>> = fs \o <<a, b>>
         /\ ((fs \o <<a>>) \o <<b>>) \o <<c>> = fs \o <<a, b, c>>
<1>1. <<a>> \in Seq(Frames) /\ <<b>> \in Seq(Frames) /\ <<c>> \in Seq(Frames)
      /\ <<a, b>> \in Seq(Frames)
  OBVIOUS
<1>2. (fs \o <<a>>) \o <<b>> = fs \o (<<a>> \o <<b>>)
  BY <1>1, Associates
<1>3. <<a>> \o <<b>> = <<a, b>>
  BY Pair
<1>4. (fs \o <<a, b>>) \o <<c>> = fs \o (<<a, b>> \o <<c>>)
  BY <1>1, Associates
<1>5. <<a, b>> \o <<c>> = <<a, b, c>>
  BY Triple
<1> QED BY <1>2, <1>3, <1>4, <1>5

(* A call: its block is opened, filled and closed. *)
LEMMA ShapeCall ==
  ASSUME NEW fs, NEW next, Shape(fs, NoIndex, next), NEW call \in ToolUses
  PROVE  Shape(fs \o <<Frame("open", next, <<>>, NoUse), Frame("call", next, <<>>, call),
                       Frame("close", next, <<>>, NoUse)>>, NoIndex, next + 1)
<1> DEFINE a == Frame("open", next, <<>>, NoUse)
           b == Frame("call", next, <<>>, call)
           c == Frame("close", next, <<>>, NoUse)
           next2 == next + 1
<1>1. fs \in Seq(Frames) /\ next \in Nat
  BY DEF Shape
<1>2. a \in Frames /\ b \in Frames /\ c \in Frames
  <2>1. a \in Frames
    BY <1>1, BareFrame
  <2>2. c \in Frames
    BY <1>1, BareFrame
  <2>3. b \in Frames
    BY <1>1, SmallTexts DEF Frame, Frames
  <2> QED BY <2>1, <2>2, <2>3
<1>3. Shape(fs \o <<a>>, next, next2)
  BY ShapeOpen
<1>4. "call" \in {"think", "text", "call", "sign"} /\ next \in {NoIndex, next} /\ <<>> \in Texts
  BY SmallTexts
<1>5. Shape((fs \o <<a>>) \o <<b>>, next, next2)
  <2> HIDE DEF a, next2
  <2> QED BY <1>3, <1>4, ShapeIn
<1>6. Shape(((fs \o <<a>>) \o <<b>>) \o <<c>>, NoIndex, next2)
  <2> HIDE DEF a, b, next2
  <2> QED BY <1>1, <1>5, ShapeClose
<1> HIDE DEF a, b, c, next2
<1>7. ((fs \o <<a>>) \o <<b>>) \o <<c>> = fs \o <<a, b, c>>
  BY <1>1, <1>2, OneByOne
<1>8. Shape(fs \o <<a, b, c>>, NoIndex, next2)
  BY <1>6, <1>7
<1> QED BY <1>8 DEF a, b, c, next2

LEMMA MaxOfTwo ==
  ASSUME NEW a \in Nat, NEW b \in Nat
  PROVE  Max({a, b}) \in Nat /\ Max({a, b}) >= a /\ Max({a, b}) >= b /\ Max({a, b}) \in {a, b}
<1> DEFINE T == {a, b}
<1>1. a + b \in Nat /\ T \subseteq 0..(a + b) /\ T # {} /\ a \in T /\ b \in T
  OBVIOUS
<1> DEFINE n == a + b
<1>2. n \in Nat /\ T \subseteq 0..n
  BY <1>1
<1> HIDE DEF T, n
<1>3. Max(T) \in T /\ \A y \in T : Max(T) >= y
  BY <1>1, <1>2, Greatest
<1>4. T \subseteq Nat
  BY <1>2
<1>5. Max(T) \in Nat /\ Max(T) >= a /\ Max(T) >= b /\ Max(T) \in T
  BY <1>1, <1>3, <1>4
<1> QED BY <1>5 DEF T

LEMMA ShapeEmpty == ASSUME NEW block, NEW next, Shape(<<>>, block, next) PROVE block = NoIndex
<1>1. Bounds(<<>>, 1) = {} /\ Len(<<>>) + 1 = 1
  BY DEF Bounds
<1>2. OpenIn(<<>>, 1) = NoIndex
  BY <1>1 DEF OpenIn
<1> QED BY <1>1, <1>2 DEF Shape

LEMMA OpFields ==
  ASSUME NEW op \in Ops PROVE op.chunk \in Texts /\ op.call \in ToolUses
BY DEF Ops

LEMMA NothingSent == ASSUME NEW fs \in Seq(Frames) PROVE fs \o <<>> = fs
OBVIOUS

-----------------------------------------------------------------------------
(* The encoder of /v1/chat/completions and /v1/completions, which number    *)
(* nothing.                                                                 *)

(* The chat and completion routes number nothing. *)
LEMMA ChatEmits ==
  ASSUME NEW fs, Shape(fs, NoIndex, 0), NEW op \in Ops, op.op \in ChatOps \ {"finish"},
         op.op = "role" => fs = <<>>
  PROVE  Shape(fs \o IRStreamToChunk(op), NoIndex, 0)
<1>1. op.chunk \in Texts /\ op.call \in ToolUses /\ NoUse \in ToolUses /\ <<>> \in Texts
  BY OpFields, NoUseType, SmallTexts
<1>2. CASE op.op = "role"
  <2>1. IRStreamToChunk(op) = <<Frame("begin", NoIndex, <<>>, NoUse)>>
    BY <1>2 DEF IRStreamToChunk
  <2>2. fs = <<>>
    BY <1>2
  <2>3. Shape(<<>> \o <<Frame("begin", NoIndex, <<>>, NoUse)>>, NoIndex, 0)
    BY <2>2, ShapeBegin
  <2> QED BY <2>1, <2>2, <2>3
<1>3. CASE op.op \in {"think", "text", "call"}
  <2> DEFINE chunk == IF op.op = "call" THEN <<>> ELSE op.chunk
             use == IF op.op = "call" THEN op.call ELSE NoUse
             kind == op.op
  <2>1. IRStreamToChunk(op) = <<Frame(kind, NoIndex, chunk, use)>>
    BY <1>3 DEF IRStreamToChunk
  <2>2. chunk \in Texts /\ use \in ToolUses /\ kind \in {"think", "text", "call", "sign"}
    BY <1>1, <1>3
  <2> HIDE DEF chunk, use, kind
  <2>3. Shape(fs \o <<Frame(kind, NoIndex, chunk, use)>>, NoIndex, 0)
    BY <2>2, ShapeIn
  <2> QED BY <2>1, <2>3
<1> QED BY <1>2, <1>3 DEF ChatOps

LEMMA ChatEnds ==
  ASSUME NEW fs, Shape(fs, NoIndex, 0), NEW op \in Ops, op.op = "finish"
  PROVE  Nests(fs \o IRStreamToChunk(op)) /\ fs \o IRStreamToChunk(op) \in Seq(Frames)
<1>1. IRStreamToChunk(op) = <<Frame("end", NoIndex, <<>>, NoUse)>>
  BY DEF IRStreamToChunk
<1> QED BY <1>1, ShapeEnds

-----------------------------------------------------------------------------
(* The encoder of /v1/responses. *)

(* The open block is that of the message item, and the next item has the    *)
(* next number.                                                             *)
ResponsesGood(s, fs) ==
  /\ s \in ResponsesStates
  /\ Shape(fs, IF s.messageOpen THEN s.messageIndex ELSE NoIndex, s.nextIndex)

LEMMA BumpedType ==
  ASSUME NEW s \in ResponsesStates
  PROVE  /\ Bumped(s) \in ResponsesStates /\ Bumped(s).messageOpen = s.messageOpen
         /\ Bumped(s).messageIndex = s.messageIndex /\ s.nextIndex <= Bumped(s).nextIndex
<1>1. s.nextIndex \in Nat /\ s.messageIndex + 1 \in Nat
  BY DEF ResponsesStates
<1> DEFINE m == Max({s.nextIndex, s.messageIndex + 1})
<1>2. m \in Nat /\ m >= s.nextIndex
  BY <1>1, MaxOfTwo
<1>3. Bumped(s) = [s EXCEPT !.nextIndex = m]
  BY DEF Bumped
<1> HIDE DEF m
<1> QED BY <1>1, <1>2, <1>3 DEF ResponsesStates

LEMMA BumpedGood ==
  ASSUME NEW s, NEW fs, ResponsesGood(s, fs) PROVE ResponsesGood(Bumped(s), fs)
<1>1. s \in ResponsesStates
  BY DEF ResponsesGood
<1> DEFINE b == Bumped(s)
           block == IF s.messageOpen THEN s.messageIndex ELSE NoIndex
<1>2. /\ b \in ResponsesStates /\ b.messageOpen = s.messageOpen
      /\ b.messageIndex = s.messageIndex /\ s.nextIndex <= b.nextIndex /\ b.nextIndex \in Nat
  BY <1>1, BumpedType DEF ResponsesStates
<1>3. Shape(fs, block, s.nextIndex)
  BY DEF ResponsesGood
<1> HIDE DEF b
<1>4. Shape(fs, block, b.nextIndex)
  <2> HIDE DEF block
  <2> QED BY <1>2, <1>3, ShapeWider
<1>5. ResponsesGood(b, fs)
  BY <1>2, <1>4 DEF ResponsesGood
<1> QED BY <1>5 DEF b

(* The message item is opened before its first delta, once. *)
LEMMA EnsuredGood ==
  ASSUME NEW s, NEW fs, ResponsesGood(s, fs)
  PROVE  /\ ResponsesGood(EnsureMessageItem(s).state, fs \o EnsureMessageItem(s).frames)
         /\ EnsureMessageItem(s).state.messageOpen
         /\ EnsureMessageItem(s).frames \in Seq(Frames)
         /\ fs \in Seq(Frames)
<1>1. s \in ResponsesStates /\ fs \in Seq(Frames)
  BY DEF ResponsesGood, Shape
<1>2. CASE s.messageOpen
  <2>1. EnsureMessageItem(s).state = s /\ EnsureMessageItem(s).frames = <<>>
    BY <1>2 DEF EnsureMessageItem, Sent
  <2>2. <<>> \in Seq(Frames) /\ fs \o <<>> = fs
    BY <1>1, NothingSent
  <2> QED BY <1>1, <1>2, <2>1, <2>2
<1>3. CASE ~s.messageOpen
  <2> DEFINE n == s.nextIndex
             t == [messageOpen |-> TRUE, messageIndex |-> n, nextIndex |-> n + 1]
             f == Frame("open", n, <<>>, NoUse)
  <2>1. EnsureMessageItem(s).state = t /\ EnsureMessageItem(s).frames = <<f>>
    BY <1>3 DEF EnsureMessageItem, Sent
  <2>2. n \in Nat /\ n + 1 \in Nat
    BY <1>1 DEF ResponsesStates
  <2>3. t \in ResponsesStates /\ t.messageOpen /\ t.messageIndex = n /\ t.nextIndex = n + 1
    BY <2>2 DEF ResponsesStates
  <2>4. Shape(fs, NoIndex, n)
    BY <1>3 DEF ResponsesGood
  <2>5. Shape(fs \o <<f>>, n, n + 1)
    <3> HIDE DEF n
    <3> QED BY <2>4, ShapeOpen
  <2>6. f \in Frames
    BY <2>2, BareFrame
  <2>7. <<f>> \in Seq(Frames)
    <3> HIDE DEF f
    <3> QED BY <2>6
  <2> HIDE DEF t, f, n
  <2>8. ResponsesGood(t, fs \o <<f>>)
    BY <2>3, <2>5 DEF ResponsesGood
  <2> QED BY <1>1, <2>1, <2>3, <2>7, <2>8
<1> QED BY <1>2, <1>3

LEMMA AppendedIs ==
  ASSUME NEW fs \in Seq(Frames), NEW gs \in Seq(Frames), NEW f \in Frames
  PROVE  fs \o Append(gs, f) = (fs \o gs) \o <<f>>
<1>1. <<f>> \in Seq(Frames) /\ Append(gs, f) = gs \o <<f>>
  OBVIOUS
<1>2. (fs \o gs) \o <<f>> = fs \o (gs \o <<f>>)
  BY <1>1, Associates
<1> QED BY <1>1, <1>2

(* Every call but the last. *)
LEMMA ResponsesEmits ==
  ASSUME NEW s, NEW fs, ResponsesGood(s, fs), NEW op \in Ops,
         op.op \in ResponsesOps \ {"complete"}, op.op = "start" => fs = <<>>,
         op.op = "call" => ~s.messageOpen
  PROVE  LET step == EmitResponses(s, op)
         IN /\ ResponsesGood(step.state, fs \o step.frames)
            /\ op.op = "close" => ~step.state.messageOpen
            /\ step.state.messageOpen => s.messageOpen \/ op.op = "text"
<1> DEFINE step == EmitResponses(s, op)
           block == IF s.messageOpen THEN s.messageIndex ELSE NoIndex
<1>1. op.chunk \in Texts /\ op.call \in ToolUses /\ NoUse \in ToolUses /\ <<>> \in Texts
  BY OpFields, NoUseType, SmallTexts
<1>2. /\ s \in ResponsesStates /\ fs \in Seq(Frames) /\ Shape(fs, block, s.nextIndex)
      /\ s.nextIndex \in Nat /\ s.messageIndex \in Nat /\ s.messageOpen \in BOOLEAN
      /\ block \in Nat \cup {NoIndex}
  BY DEF ResponsesGood, Shape, ResponsesStates
<1>3. CASE op.op = "start"
  <2> DEFINE f == Frame("begin", NoIndex, <<>>, NoUse)
  <2>1. step.state = s /\ step.frames = <<f>>
    BY <1>3 DEF EmitResponses, Sent
  <2>2. fs = <<>> /\ block = NoIndex
    <3>1. fs = <<>>
      BY <1>3
    <3> HIDE DEF block
    <3> QED BY <1>2, <3>1, ShapeEmpty
  <2>3. Shape(fs \o <<f>>, block, s.nextIndex)
    <3> DEFINE n == s.nextIndex
    <3>1. Shape(<<>>, NoIndex, n)
      BY <1>2, <2>2
    <3> HIDE DEF n
    <3>2. Shape(<<>> \o <<f>>, NoIndex, n)
      BY <3>1, ShapeBegin
    <3> QED BY <2>2, <3>2 DEF n
  <2> HIDE DEF step, f
  <2>4. ResponsesGood(step.state, fs \o step.frames)
    BY <1>2, <2>1, <2>3 DEF ResponsesGood
  <2> QED BY <1>3, <2>1, <2>4 DEF step
<1>4. CASE op.op = "reasoning" /\ IsBlank(op.chunk)
  <2>1. step.state = s /\ step.frames = <<>>
    BY <1>4 DEF EmitResponses, EmitReasoningDelta, Sent
  <2>2. fs \o <<>> = fs
    BY <1>2, NothingSent
  <2> HIDE DEF step
  <2>3. ResponsesGood(step.state, fs \o step.frames)
    BY <2>1, <2>2
  <2> QED BY <1>4, <2>1, <2>3 DEF step
<1>5. CASE op.op = "reasoning" /\ ~IsBlank(op.chunk)
  <2> DEFINE f == Frame("think", NoIndex, op.chunk, NoUse)
  <2>1. step.state = Bumped(s) /\ step.frames = <<f>>
    BY <1>5 DEF EmitResponses, EmitReasoningDelta, Sent
  <2>2. Shape(fs \o <<f>>, block, s.nextIndex)
    <3> DEFINE n == s.nextIndex
    <3> HIDE DEF block, n
    <3>1. Shape(fs, block, n)
      BY <1>2 DEF n
    <3>2. "think" \in {"think", "text", "call", "sign"} /\ NoIndex \in {NoIndex, block}
      OBVIOUS
    <3>3. Shape(fs \o <<f>>, block, n)
      BY <1>1, <3>1, <3>2, ShapeIn
    <3> QED BY <3>3 DEF n
  <2> HIDE DEF f, step
  <2>3. ResponsesGood(s, fs \o <<f>>)
    BY <1>2, <2>2 DEF ResponsesGood
  <2>4. ResponsesGood(step.state, fs \o step.frames)
    BY <2>1, <2>3, BumpedGood
  <2>5. step.state.messageOpen = s.messageOpen
    BY <1>2, <2>1, BumpedType
  <2> QED BY <1>5, <2>4, <2>5 DEF step
<1> DEFINE e == EnsureMessageItem(s)
           gs == fs \o e.frames
<1>6. /\ ResponsesGood(e.state, gs) /\ e.state.messageOpen /\ e.frames \in Seq(Frames)
      /\ e.state \in ResponsesStates /\ gs \in Seq(Frames)
      /\ Shape(gs, e.state.messageIndex, e.state.nextIndex) /\ e.state.messageIndex \in Nat
  <2>1. ResponsesGood(e.state, gs) /\ e.state.messageOpen /\ e.frames \in Seq(Frames)
    BY EnsuredGood
  <2> HIDE DEF e, gs
  <2> QED BY <2>1 DEF ResponsesGood, Shape, ResponsesStates
<1>7. CASE op.op = "text" /\ op.chunk = <<>>
  <2>1. step.state = s /\ step.frames = <<>>
    BY <1>7 DEF EmitResponses, EmitTextDelta, Sent
  <2>2. fs \o <<>> = fs
    BY <1>2, NothingSent
  <2> HIDE DEF step
  <2>3. ResponsesGood(step.state, fs \o step.frames)
    BY <2>1, <2>2
  <2> QED BY <1>7, <2>1, <2>3 DEF step
<1>8. CASE op.op = "text" /\ op.chunk # <<>>
  <2> DEFINE i == e.state.messageIndex
             f == Frame("text", i, op.chunk, NoUse)
  <2>1. step.state = Bumped(e.state) /\ step.frames = Append(e.frames, f)
    BY <1>8 DEF EmitResponses, EmitTextDelta, Sent
  <2>2. f \in Frames
    BY <1>1, <1>6 DEF Frame, Frames
  <2>3. fs \o Append(e.frames, f) = gs \o <<f>>
    <3> HIDE DEF e, f
    <3> QED BY <1>2, <1>6, <2>2, AppendedIs
  <2>4. Shape(gs \o <<f>>, i, e.state.nextIndex)
    <3> DEFINE n == e.state.nextIndex
    <3>1. Shape(gs, i, n)
      BY <1>6
    <3> HIDE DEF gs, i, n
    <3>2. "text" \in {"think", "text", "call", "sign"} /\ i \in {NoIndex, i}
      OBVIOUS
    <3>3. Shape(gs \o <<f>>, i, n)
      BY <1>1, <3>1, <3>2, ShapeIn
    <3> QED BY <3>3 DEF n
  <2> HIDE DEF f, step, gs, e
  <2>5. ResponsesGood(e.state, gs \o <<f>>)
    BY <1>6, <2>4 DEF ResponsesGood
  <2>6. ResponsesGood(step.state, fs \o step.frames)
    BY <2>1, <2>3, <2>5, BumpedGood
  <2> QED BY <1>8, <2>6 DEF step
<1>9. CASE op.op = "close"
  <2> DEFINE i == e.state.messageIndex
             f == Frame("close", i, <<>>, NoUse)
             t == [e.state EXCEPT !.messageOpen = FALSE]
  <2>1. step.state = Bumped(t) /\ step.frames = Append(e.frames, f)
    BY <1>9 DEF EmitResponses, CloseMessageItem, Sent
  <2>2. f \in Frames
    BY <1>6, BareFrame
  <2>3. fs \o Append(e.frames, f) = gs \o <<f>>
    <3> HIDE DEF e, f
    <3> QED BY <1>2, <1>6, <2>2, AppendedIs
  <2>4. Shape(gs \o <<f>>, NoIndex, e.state.nextIndex)
    <3> DEFINE n == e.state.nextIndex
    <3>1. Shape(gs, i, n) /\ i \in Nat
      BY <1>6
    <3> HIDE DEF gs, i, n
    <3>3. Shape(gs \o <<f>>, NoIndex, n)
      BY <3>1, ShapeClose
    <3> QED BY <3>3 DEF n
  <2> HIDE DEF f, step, gs, e
  <2>5. t \in ResponsesStates /\ t.messageOpen = FALSE /\ t.nextIndex = e.state.nextIndex
    BY <1>6 DEF ResponsesStates
  <2> HIDE DEF t
  <2>6. ResponsesGood(t, gs \o <<f>>)
    BY <2>4, <2>5 DEF ResponsesGood
  <2>7. ResponsesGood(step.state, fs \o step.frames)
    BY <2>1, <2>3, <2>6, BumpedGood
  <2>8. ~step.state.messageOpen
    BY <2>1, <2>5, BumpedType
  <2> QED BY <2>7, <2>8 DEF step
<1>10. CASE op.op = "call" /\ op.call.name = ""
  <2>1. step.state = s /\ step.frames = <<>>
    BY <1>10 DEF EmitResponses, EmitFunctionCall, Sent
  <2>2. fs \o <<>> = fs
    BY <1>2, NothingSent
  <2> HIDE DEF step
  <2>3. ResponsesGood(step.state, fs \o step.frames)
    BY <2>1, <2>2
  <2> QED BY <1>10, <2>1, <2>3 DEF step
<1>11. CASE op.op = "call" /\ op.call.name # ""
  <2> DEFINE n == s.nextIndex
             n2 == n + 1
             t == [s EXCEPT !.nextIndex = n2]
             c == op.call
             three == <<Frame("open", n, <<>>, NoUse), Frame("call", n, <<>>, c),
                        Frame("close", n, <<>>, NoUse)>>
  <2>1. step.state = t /\ step.frames = three
    BY <1>11 DEF EmitResponses, EmitFunctionCall, Sent
  <2>2. ~s.messageOpen /\ Shape(fs, NoIndex, n) /\ c \in ToolUses
    BY <1>1, <1>2, <1>11
  <2>3. n2 \in Nat
    BY <1>2
  <2>4. Shape(fs \o three, NoIndex, n + 1)
    <3> HIDE DEF n, c
    <3> QED BY <2>2, ShapeCall
  <2> HIDE DEF step, three
  <2>5. Shape(fs \o three, NoIndex, n2)
    BY <2>4
  <2> HIDE DEF n2
  <2>6. t \in ResponsesStates /\ t.messageOpen = s.messageOpen /\ t.nextIndex = n2
    BY <1>2, <2>3 DEF ResponsesStates
  <2> HIDE DEF t
  <2>7. ResponsesGood(step.state, fs \o step.frames)
    BY <2>1, <2>2, <2>5, <2>6 DEF ResponsesGood
  <2>8. ~step.state.messageOpen
    BY <2>1, <2>2, <2>6
  <2> QED BY <2>7, <2>8 DEF step
<1>12. op.op \in {"start", "reasoning", "text", "close", "call"}
  BY DEF ResponsesOps
<1> HIDE DEF step
<1>13. /\ ResponsesGood(step.state, fs \o step.frames)
       /\ op.op = "close" => ~step.state.messageOpen
       /\ step.state.messageOpen => s.messageOpen \/ op.op = "text"
  BY <1>3, <1>4, <1>5, <1>7, <1>8, <1>9, <1>10, <1>11, <1>12 DEF step
<1> QED BY <1>13 DEF step

LEMMA ResponsesEnds ==
  ASSUME NEW s, NEW fs, ResponsesGood(s, fs), ~s.messageOpen, NEW op \in Ops, op.op = "complete"
  PROVE  LET step == EmitResponses(s, op)
         IN /\ step.state \in ResponsesStates
            /\ Nests(fs \o step.frames) /\ fs \o step.frames \in Seq(Frames)
<1>1. /\ EmitResponses(s, op).frames = <<Frame("end", NoIndex, <<>>, NoUse)>>
      /\ EmitResponses(s, op).state = s
  BY DEF EmitResponses, Sent
<1>2. Shape(fs, NoIndex, s.nextIndex) /\ s \in ResponsesStates
  BY DEF ResponsesGood
<1> QED BY <1>1, <1>2, ShapeEnds

-----------------------------------------------------------------------------
(* The encoder of /v1/messages: the thinking numbers the blocks before the  *)
(* mark, the message those after it.                                        *)

(* Before the mark only a block of thinking can be open; its numbers are    *)
(* the thinking's own.                                                      *)
ThinkingGood(s, fs) ==
  /\ s \in MessageStates /\ ~s.textOpen /\ s.nextIndex = 0
  /\ Shape(fs, IF s.thinkingOpen THEN s.thinkingIndex ELSE NoIndex, s.thinkingNext)

SpeakingGood(s, fs) ==
  /\ s \in MessageStates /\ ~s.thinkingOpen
  /\ Shape(fs, IF s.textOpen THEN s.textIndex ELSE NoIndex, s.nextIndex)

LEMMA MessageFields ==
  ASSUME NEW s \in MessageStates
  PROVE  /\ s.thinkingOpen \in BOOLEAN /\ s.thinkingIndex \in Nat /\ s.thinkingNext \in Nat
         /\ s.textOpen \in BOOLEAN /\ s.textIndex \in Nat /\ s.nextIndex \in Nat
BY DEF MessageStates

LEMMA BeginsIn ==
  ASSUME NEW block, NEW next, Shape(<<>>, block, next)
  PROVE  Shape(<<>> \o <<Frame("begin", NoIndex, <<>>, NoUse)>>, block, next)
<1>1. block = NoIndex
  BY ShapeEmpty
<1> QED BY <1>1, ShapeBegin

LEMMA MessageStarts ==
  ASSUME NEW s, NEW fs, fs = <<>>, NEW op \in Ops, op.op = "start"
  PROVE  LET step == EmitMessages(s, op)
         IN /\ ThinkingGood(s, fs) => ThinkingGood(step.state, fs \o step.frames)
            /\ SpeakingGood(s, fs) => SpeakingGood(step.state, fs \o step.frames)
            /\ step.state = s
<1> DEFINE f == Frame("begin", NoIndex, <<>>, NoUse)
           step == EmitMessages(s, op)
<1>1. step.state = s /\ step.frames = <<f>>
  BY DEF EmitMessages, Sent
<1> HIDE DEF step
<1>2. ThinkingGood(s, fs) => ThinkingGood(s, fs \o <<f>>)
  <2> SUFFICES ASSUME ThinkingGood(s, fs) PROVE ThinkingGood(s, fs \o <<f>>)
    OBVIOUS
  <2> DEFINE block == IF s.thinkingOpen THEN s.thinkingIndex ELSE NoIndex
             n == s.thinkingNext
  <2>1. Shape(<<>>, block, n) /\ s \in MessageStates /\ ~s.textOpen /\ s.nextIndex = 0
    BY DEF ThinkingGood
  <2> HIDE DEF block, n
  <2>2. Shape(<<>> \o <<f>>, block, n)
    BY <2>1, BeginsIn
  <2> HIDE DEF f
  <2>3. Shape(fs \o <<f>>, block, n)
    BY <2>2
  <2> QED BY <2>1, <2>3 DEF ThinkingGood, block, n
<1>3. SpeakingGood(s, fs) => SpeakingGood(s, fs \o <<f>>)
  <2> SUFFICES ASSUME SpeakingGood(s, fs) PROVE SpeakingGood(s, fs \o <<f>>)
    OBVIOUS
  <2> DEFINE block == IF s.textOpen THEN s.textIndex ELSE NoIndex
             n == s.nextIndex
  <2>1. Shape(<<>>, block, n) /\ s \in MessageStates /\ ~s.thinkingOpen
    BY DEF SpeakingGood
  <2> HIDE DEF block, n
  <2>2. Shape(<<>> \o <<f>>, block, n)
    BY <2>1, BeginsIn
  <2> HIDE DEF f
  <2>3. Shape(fs \o <<f>>, block, n)
    BY <2>2
  <2> QED BY <2>1, <2>3 DEF SpeakingGood, block, n
<1> HIDE DEF f
<1> QED BY <1>1, <1>2, <1>3 DEF step

LEMMA MessageThinks ==
  ASSUME NEW s, NEW fs, ThinkingGood(s, fs), NEW op \in Ops, op.op = "think"
  PROVE  LET step == EmitMessages(s, op) IN ThinkingGood(step.state, fs \o step.frames)
<1> DEFINE step == EmitMessages(s, op)
           chunk == op.chunk
<1>1. chunk \in Texts /\ NoUse \in ToolUses /\ <<>> \in Texts
  BY OpFields, NoUseType, SmallTexts
<1>2. /\ s \in MessageStates /\ fs \in Seq(Frames) /\ ~s.textOpen /\ s.nextIndex = 0
      /\ s.thinkingOpen \in BOOLEAN /\ s.thinkingIndex \in Nat /\ s.thinkingNext \in Nat
  BY MessageFields DEF ThinkingGood, Shape
<1>3. CASE s.thinkingOpen
  <2> DEFINE i == s.thinkingIndex
             n == s.thinkingNext
             f == Frame("think", i, chunk, NoUse)
  <2>1. step.state = s /\ step.frames = <<f>>
    BY <1>3 DEF EmitMessages, EmitThinkingDelta, Sent
  <2>2. Shape(fs, i, n)
    BY <1>3 DEF ThinkingGood
  <2>3. Shape(fs \o <<f>>, i, n)
    <3> HIDE DEF i, n, chunk
    <3>1. "think" \in {"think", "text", "call", "sign"} /\ i \in {NoIndex, i}
      OBVIOUS
    <3> QED BY <1>1, <2>2, <3>1, ShapeIn
  <2> HIDE DEF step, f, chunk
  <2>4. ThinkingGood(step.state, fs \o step.frames)
    BY <1>2, <1>3, <2>1, <2>3 DEF ThinkingGood
  <2> QED BY <2>4 DEF step
<1>4. CASE ~s.thinkingOpen
  <2> DEFINE n == s.thinkingNext
             n2 == n + 1
             t == [s EXCEPT !.thinkingOpen = TRUE, !.thinkingIndex = n, !.thinkingNext = n2]
             f == Frame("open", n, <<>>, NoUse)
             g == Frame("think", n, chunk, NoUse)
  <2>1. step.state = t /\ step.frames = <<f, g>>
    BY <1>4 DEF EmitMessages, EmitThinkingDelta, Sent
  <2>2. Shape(fs, NoIndex, n) /\ n2 \in Nat
    BY <1>2, <1>4 DEF ThinkingGood
  <2>3. Shape(fs \o <<f>>, n, n2)
    <3> HIDE DEF n
    <3> QED BY <2>2, ShapeOpen
  <2>4. f \in Frames /\ g \in Frames
    <3>1. f \in Frames
      BY <1>2, BareFrame
    <3>2. g \in Frames
      BY <1>1, <1>2 DEF Frame, Frames
    <3> QED BY <3>1, <3>2
  <2>5. t \in MessageStates /\ t.thinkingOpen /\ t.thinkingIndex = n /\ t.thinkingNext = n2
        /\ ~t.textOpen /\ t.nextIndex = 0
    <3> HIDE DEF n2
    <3> QED BY <1>2, <2>2 DEF MessageStates
  <2> HIDE DEF n2
  <2>6. Shape((fs \o <<f>>) \o <<g>>, n, n2)
    <3> HIDE DEF n, chunk, f
    <3>1. "think" \in {"think", "text", "call", "sign"} /\ n \in {NoIndex, n}
      OBVIOUS
    <3> QED BY <1>1, <2>3, <3>1, ShapeIn
  <2> HIDE DEF step, f, g, chunk, t
  <2>7. (fs \o <<f>>) \o <<g>> = fs \o <<f, g>>
    BY <1>2, <2>4, OneByOne
  <2>8. ThinkingGood(step.state, fs \o step.frames)
    BY <2>1, <2>5, <2>6, <2>7 DEF ThinkingGood
  <2> QED BY <2>8 DEF step
<1> QED BY <1>2, <1>3, <1>4

(* The mark closes the thinking and hands its number on. *)
LEMMA MessagePrepares ==
  ASSUME NEW s, NEW fs, ThinkingGood(s, fs), NEW op \in Ops, op.op = "prepare"
  PROVE  LET step == EmitMessages(s, op)
         IN SpeakingGood(step.state, fs \o step.frames) /\ ~step.state.textOpen
<1> DEFINE step == EmitMessages(s, op)
           n == s.thinkingNext
           m == Max({s.nextIndex, n})
           t == [s EXCEPT !.thinkingOpen = FALSE, !.nextIndex = m]
<1>1. NoUse \in ToolUses /\ <<>> \in Texts
  BY NoUseType, SmallTexts
<1>2. /\ s \in MessageStates /\ fs \in Seq(Frames) /\ ~s.textOpen /\ s.nextIndex = 0
      /\ s.thinkingOpen \in BOOLEAN /\ s.thinkingIndex \in Nat /\ n \in Nat
  BY MessageFields DEF ThinkingGood, Shape
<1>3. m \in Nat /\ n <= m
  BY <1>2, MaxOfTwo
<1>4. step.state = t
  BY DEF EmitMessages, PrepareForNextBlock, Sent
<1> HIDE DEF m
<1>5. t \in MessageStates /\ ~t.thinkingOpen /\ ~t.textOpen /\ t.nextIndex = m
  BY <1>2, <1>3 DEF MessageStates
<1> HIDE DEF t
<1>6. CASE s.thinkingOpen
  <2> DEFINE i == s.thinkingIndex
             f == Frame("sign", i, <<>>, NoUse)
             g == Frame("close", i, <<>>, NoUse)
  <2>1. step.frames = <<f, g>>
    BY <1>6 DEF EmitMessages, PrepareForNextBlock, Sent
  <2>2. Shape(fs, i, n) /\ i \in Nat
    BY <1>2, <1>6 DEF ThinkingGood
  <2>3. f \in Frames /\ g \in Frames
    BY <1>2, BareFrame
  <2> HIDE DEF i, n
  <2>4. Shape(fs \o <<f>>, i, n)
    <3>1. "sign" \in {"think", "text", "call", "sign"} /\ i \in {NoIndex, i}
      OBVIOUS
    <3> QED BY <1>1, <2>2, <3>1, ShapeIn
  <2>5. Shape((fs \o <<f>>) \o <<g>>, NoIndex, n)
    <3> HIDE DEF f
    <3> QED BY <2>2, <2>4, ShapeClose
  <2> HIDE DEF f, g, step
  <2>6. (fs \o <<f>>) \o <<g>> = fs \o <<f, g>>
    BY <1>2, <2>3, OneByOne
  <2>7. Shape(fs \o <<f, g>>, NoIndex, m)
    BY <1>3, <2>5, <2>6, ShapeWider
  <2>8. SpeakingGood(t, fs \o <<f, g>>)
    BY <1>5, <2>7 DEF SpeakingGood
  <2> QED BY <1>4, <1>5, <2>1, <2>8 DEF step
<1>7. CASE ~s.thinkingOpen
  <2>1. step.frames = <<>>
    BY <1>7 DEF EmitMessages, PrepareForNextBlock, Sent
  <2>2. Shape(fs, NoIndex, n)
    BY <1>7 DEF ThinkingGood
  <2> HIDE DEF n, step
  <2>3. Shape(fs, NoIndex, m)
    BY <1>3, <2>2, ShapeWider
  <2>4. SpeakingGood(t, fs) /\ fs \o <<>> = fs
    BY <1>2, <1>5, <2>3, NothingSent DEF SpeakingGood
  <2> QED BY <1>4, <1>5, <2>1, <2>4 DEF step
<1> QED BY <1>2, <1>6, <1>7

LEMMA MessageSpeaks ==
  ASSUME NEW s, NEW fs, SpeakingGood(s, fs), NEW op \in Ops, op.op = "text"
  PROVE  LET step == EmitMessages(s, op) IN SpeakingGood(step.state, fs \o step.frames)
<1> DEFINE step == EmitMessages(s, op)
           chunk == op.chunk
<1>1. chunk \in Texts /\ NoUse \in ToolUses /\ <<>> \in Texts
  BY OpFields, NoUseType, SmallTexts
<1>2. /\ s \in MessageStates /\ fs \in Seq(Frames) /\ ~s.thinkingOpen
      /\ s.textOpen \in BOOLEAN /\ s.textIndex \in Nat /\ s.nextIndex \in Nat
  BY MessageFields DEF SpeakingGood, Shape
<1>3. CASE s.textOpen
  <2> DEFINE i == s.textIndex
             n == s.nextIndex
             f == Frame("text", i, chunk, NoUse)
  <2>1. step.state = s /\ step.frames = <<f>>
    BY <1>3 DEF EmitMessages, EmitMessageText, Sent
  <2>2. Shape(fs, i, n)
    BY <1>3 DEF SpeakingGood
  <2>3. Shape(fs \o <<f>>, i, n)
    <3> HIDE DEF i, n, chunk
    <3>1. "text" \in {"think", "text", "call", "sign"} /\ i \in {NoIndex, i}
      OBVIOUS
    <3> QED BY <1>1, <2>2, <3>1, ShapeIn
  <2> HIDE DEF step, f, chunk
  <2>4. SpeakingGood(step.state, fs \o step.frames)
    BY <1>2, <1>3, <2>1, <2>3 DEF SpeakingGood
  <2> QED BY <2>4 DEF step
<1>4. CASE ~s.textOpen
  <2> DEFINE n == s.nextIndex
             n2 == n + 1
             t == [s EXCEPT !.textOpen = TRUE, !.textIndex = n, !.nextIndex = n2]
             f == Frame("open", n, <<>>, NoUse)
             g == Frame("text", n, chunk, NoUse)
  <2>1. step.state = t /\ step.frames = <<f, g>>
    BY <1>4 DEF EmitMessages, EmitMessageText, Sent
  <2>2. Shape(fs, NoIndex, n) /\ n2 \in Nat
    BY <1>2, <1>4 DEF SpeakingGood
  <2>3. Shape(fs \o <<f>>, n, n2)
    <3> HIDE DEF n
    <3> QED BY <2>2, ShapeOpen
  <2>4. f \in Frames /\ g \in Frames
    <3>1. f \in Frames
      BY <1>2, BareFrame
    <3>2. g \in Frames
      BY <1>1, <1>2 DEF Frame, Frames
    <3> QED BY <3>1, <3>2
  <2>5. t \in MessageStates /\ t.textOpen /\ t.textIndex = n /\ t.nextIndex = n2
        /\ ~t.thinkingOpen
    <3> HIDE DEF n2
    <3> QED BY <1>2, <2>2 DEF MessageStates
  <2> HIDE DEF n2
  <2>6. Shape((fs \o <<f>>) \o <<g>>, n, n2)
    <3> HIDE DEF n, chunk, f
    <3>1. "text" \in {"think", "text", "call", "sign"} /\ n \in {NoIndex, n}
      OBVIOUS
    <3> QED BY <1>1, <2>3, <3>1, ShapeIn
  <2> HIDE DEF step, f, g, chunk, t
  <2>7. (fs \o <<f>>) \o <<g>> = fs \o <<f, g>>
    BY <1>2, <2>4, OneByOne
  <2>8. SpeakingGood(step.state, fs \o step.frames)
    BY <2>1, <2>5, <2>6, <2>7 DEF SpeakingGood
  <2> QED BY <2>8 DEF step
<1> QED BY <1>2, <1>3, <1>4

LEMMA MessageCloses ==
  ASSUME NEW s, NEW fs, SpeakingGood(s, fs), NEW op \in Ops, op.op = "close"
  PROVE  LET step == EmitMessages(s, op)
         IN SpeakingGood(step.state, fs \o step.frames) /\ ~step.state.textOpen
<1> DEFINE step == EmitMessages(s, op)
           i == s.textIndex
           n == s.nextIndex
<1>2. /\ s \in MessageStates /\ fs \in Seq(Frames) /\ ~s.thinkingOpen
      /\ s.textOpen \in BOOLEAN /\ i \in Nat /\ n \in Nat
  BY MessageFields DEF SpeakingGood, Shape
<1>3. CASE s.textOpen
  <2> DEFINE f == Frame("close", i, <<>>, NoUse)
             t == [s EXCEPT !.textOpen = FALSE]
  <2>1. step.state = t /\ step.frames = <<f>>
    BY <1>3 DEF EmitMessages, CloseTextBlock, Sent
  <2>2. Shape(fs, i, n)
    BY <1>3 DEF SpeakingGood
  <2>3. Shape(fs \o <<f>>, NoIndex, n)
    <3> HIDE DEF i, n
    <3> QED BY <1>2, <2>2, ShapeClose
  <2>4. t \in MessageStates /\ ~t.textOpen /\ ~t.thinkingOpen /\ t.nextIndex = n
    BY <1>2 DEF MessageStates
  <2> HIDE DEF step, f, t
  <2>5. SpeakingGood(t, fs \o <<f>>)
    BY <2>3, <2>4 DEF SpeakingGood
  <2> QED BY <2>1, <2>4, <2>5 DEF step
<1>4. CASE ~s.textOpen
  <2>1. step.state = s /\ step.frames = <<>>
    BY <1>4 DEF EmitMessages, CloseTextBlock, Sent
  <2>2. fs \o <<>> = fs
    BY <1>2, NothingSent
  <2> HIDE DEF step
  <2>3. SpeakingGood(step.state, fs \o step.frames) /\ ~step.state.textOpen
    BY <1>4, <2>1, <2>2
  <2> QED BY <2>3 DEF step
<1> QED BY <1>2, <1>3, <1>4

(* A tool call comes when no text is open, and opens and closes its own     *)
(* block.                                                                   *)
LEMMA MessageCalls ==
  ASSUME NEW s, NEW fs, SpeakingGood(s, fs), ~s.textOpen, NEW op \in Ops, op.op = "call"
  PROVE  LET step == EmitMessages(s, op)
         IN SpeakingGood(step.state, fs \o step.frames) /\ ~step.state.textOpen
<1> DEFINE step == EmitMessages(s, op)
           c == Rekeyed(op.call)
           n == s.nextIndex
<1>1. c \in ToolUses
  BY OpFields, RekeyedType
<1>2. /\ s \in MessageStates /\ fs \in Seq(Frames) /\ ~s.thinkingOpen /\ n \in Nat
      /\ Shape(fs, NoIndex, n)
  BY MessageFields DEF SpeakingGood, Shape
<1>3. CASE op.call.name = ""
  <2>1. step.state = s /\ step.frames = <<>>
    BY <1>3 DEF EmitMessages, EmitStreamToolCall, Sent
  <2>2. fs \o <<>> = fs
    BY <1>2, NothingSent
  <2> HIDE DEF step
  <2>3. SpeakingGood(step.state, fs \o step.frames) /\ ~step.state.textOpen
    BY <2>1, <2>2
  <2> QED BY <2>3 DEF step
<1>4. CASE op.call.name # ""
  <2> DEFINE n2 == n + 1
             t == [s EXCEPT !.nextIndex = n2]
             three == <<Frame("open", n, <<>>, NoUse), Frame("call", n, <<>>, c),
                        Frame("close", n, <<>>, NoUse)>>
  <2>1. step.state = t /\ step.frames = three
    BY <1>4 DEF EmitMessages, EmitStreamToolCall, Sent
  <2>2. n2 \in Nat
    BY <1>2
  <2>3. Shape(fs \o three, NoIndex, n + 1)
    <3> HIDE DEF n, c
    <3> QED BY <1>1, <1>2, ShapeCall
  <2> HIDE DEF step, three
  <2>4. Shape(fs \o three, NoIndex, n2)
    BY <2>3
  <2> HIDE DEF n2
  <2>5. t \in MessageStates /\ ~t.textOpen /\ ~t.thinkingOpen /\ t.nextIndex = n2
    BY <1>2, <2>2 DEF MessageStates
  <2> HIDE DEF t
  <2>6. SpeakingGood(t, fs \o three)
    BY <2>4, <2>5 DEF SpeakingGood
  <2> QED BY <2>1, <2>5, <2>6 DEF step
<1> QED BY <1>3, <1>4

LEMMA MessageEnds ==
  ASSUME NEW s, NEW fs, SpeakingGood(s, fs), ~s.textOpen, NEW op \in Ops, op.op = "complete"
  PROVE  LET step == EmitMessages(s, op)
         IN /\ step.state \in MessageStates
            /\ Nests(fs \o step.frames) /\ fs \o step.frames \in Seq(Frames)
<1>1. /\ EmitMessages(s, op).frames = <<Frame("end", NoIndex, <<>>, NoUse)>>
      /\ EmitMessages(s, op).state = s
  BY DEF EmitMessages, Sent
<1>2. Shape(fs, NoIndex, s.nextIndex) /\ s \in MessageStates
  BY DEF SpeakingGood
<1> QED BY <1>1, <1>2, ShapeEnds

-----------------------------------------------------------------------------
(* Streams.  What is still to be called (sc), the state of the encoder (s)  *)
(* and the frames sent (fs) fit together, call by call.                     *)

(* The first call is made on an empty stream. *)
Fresh(sc, fs) == (\E op \in OpsOf(sc) : Rank(op) = 0) => fs = <<>>

ChatStream(sc, s, fs) ==
  OpsOf(sc) \subseteq ChatOps /\ Shape(fs, NoIndex, 0) /\ s \in ResponsesStates

ResponsesStream(sc, s, fs) ==
  /\ OpsOf(sc) \subseteq ResponsesOps /\ ResponsesGood(s, fs)
  /\ "text" \in OpsOf(sc) \/ s.messageOpen => "close" \in OpsOf(sc)

MessagesStream(sc, s, fs) ==
  /\ OpsOf(sc) \subseteq MessagesOps
  /\ "think" \in OpsOf(sc) => "prepare" \in OpsOf(sc)
  /\ "text" \in OpsOf(sc) \/ s.textOpen => "close" \in OpsOf(sc)
  /\ "prepare" \in OpsOf(sc) => ThinkingGood(s, fs)
  /\ "prepare" \notin OpsOf(sc) => SpeakingGood(s, fs)

StreamOK(route, sc, s, fs) ==
  /\ Flows(sc) /\ Fresh(sc, fs)
  /\ route \in {"chat", "completions"} => ChatStream(sc, s, fs)
  /\ route = "responses" => ResponsesStream(sc, s, fs)
  /\ route = "messages" => MessagesStream(sc, s, fs)

(* What the ranks say of the first call. *)
LEMMA FlowRanks ==
  ASSUME NEW sc, Flows(sc)
  PROVE  /\ Rank(Head(sc).op) \in 0..6
         /\ Len(sc) > 1 => Head(sc).op \notin {"complete", "finish"}
         /\ Len(sc) = 1 => Rank(Head(sc).op) = 6 /\ OpsOf(sc) = {Head(sc).op}
         /\ Len(sc) = 1 \/ Len(sc) > 1
<1>1. Head(sc) \in Ops /\ Len(sc) \in Nat \ {0} /\ (Rank(Head(sc).op) = 6 <=> Len(sc) = 1)
      /\ OpsOf(sc) = {Head(sc).op} \cup OpsOf(Tail(sc)) /\ sc \in Seq(Ops)
  BY FlowsOn DEF Flows, Between
<1>2. Head(sc).op \in OpNames
  BY <1>1 DEF Ops, OpNames
<1>3. Len(sc) = 1 => OpsOf(Tail(sc)) = {}
  <2> SUFFICES ASSUME Len(sc) = 1 PROVE OpsOf(Tail(sc)) = {}
    OBVIOUS
  <2>1. DOMAIN Tail(sc) = 1..(Len(sc) - 1)
    BY FlowsOn
  <2>2. DOMAIN Tail(sc) = {}
    BY <2>1
  <2> QED BY <2>2 DEF OpsOf
<1>4. Head(sc).op \in {"complete", "finish"} => Rank(Head(sc).op) = 6
  BY RanksAre DEF Ranks
<1>5. Rank(Head(sc).op) \in 0..6
  BY <1>2, RankType
<1>6. Len(sc) = 1 \/ Len(sc) > 1
  <2>1. Len(sc) \in Nat \ {0}
    BY <1>1
  <2> QED BY <2>1
<1>7. Len(sc) > 1 => Len(sc) # 1
  OBVIOUS
<1>8. Len(sc) > 1 => Head(sc).op \notin {"complete", "finish"}
  BY <1>1, <1>4, <1>7
<1>9. Len(sc) = 1 => Rank(Head(sc).op) = 6 /\ OpsOf(sc) = {Head(sc).op}
  BY <1>1, <1>3
<1> QED BY <1>5, <1>6, <1>8, <1>9

LEMMA FreshOn ==
  ASSUME NEW sc, Flows(sc), NEW fs, NEW gs PROVE Len(sc) > 1 => Fresh(Tail(sc), gs)
<1>1. Rank(Head(sc).op) \in 0..6
  BY FlowRanks
<1>2. \A op \in OpsOf(Tail(sc)) :
        \/ Rank(Head(sc).op) < Rank(op)
        \/ Rank(Head(sc).op) = Rank(op) /\ Rank(op) \in {1, 3, 5}
  BY FlowsOn
<1>3. ASSUME NEW op \in OpsOf(Tail(sc)), Rank(op) = 0 PROVE FALSE
  <2>1. \/ Rank(Head(sc).op) < Rank(op)
        \/ Rank(Head(sc).op) = Rank(op) /\ Rank(op) \in {1, 3, 5}
    BY <1>2
  <2> QED BY <1>1, <1>3, <2>1
<1> QED BY <1>3 DEF Fresh

LEMMA FreshStart ==
  ASSUME NEW sc, Flows(sc), NEW fs, Fresh(sc, fs), Head(sc).op \in {"start", "role"}
  PROVE  fs = <<>>
<1>1. Head(sc).op \in OpsOf(sc) /\ Rank(Head(sc).op) = 0
  BY FlowsOn, RanksAre DEF Ranks
<1> QED BY <1>1 DEF Fresh

(* The calls that cannot follow the first one. *)
LEMMA Passed ==
  ASSUME NEW sc, Flows(sc), NEW op, Rank(Head(sc).op) > Rank(op), Rank(op) \in 0..6
  PROVE  op \notin OpsOf(sc)
<1>1. Rank(Head(sc).op) \in 0..6
  BY FlowRanks
<1>2. \A x \in OpsOf(Tail(sc)) :
        \/ Rank(Head(sc).op) < Rank(x)
        \/ Rank(Head(sc).op) = Rank(x) /\ Rank(x) \in {1, 3, 5}
  BY FlowsOn
<1>3. OpsOf(sc) = {Head(sc).op} \cup OpsOf(Tail(sc))
  BY FlowsOn
<1>4. op # Head(sc).op
  BY <1>1
<1>5. op \notin OpsOf(Tail(sc))
  BY <1>1, <1>2
<1> QED BY <1>3, <1>4, <1>5

LEMMA ChatWrites ==
  ASSUME NEW sc, NEW s, NEW fs, Flows(sc), Fresh(sc, fs), ChatStream(sc, s, fs)
  PROVE  LET gs == fs \o IRStreamToChunk(Head(sc))
         IN /\ Len(sc) > 1 => ChatStream(Tail(sc), s, gs)
            /\ Nests(gs) /\ gs \in Seq(Frames)
<1> DEFINE op == Head(sc)
           gs == fs \o IRStreamToChunk(op)
<1>1. op \in Ops /\ op.op \in OpsOf(sc) /\ OpsOf(sc) = {op.op} \cup OpsOf(Tail(sc))
  BY FlowsOn
<1>2. /\ OpsOf(sc) \subseteq ChatOps /\ Shape(fs, NoIndex, 0) /\ s \in ResponsesStates
  BY DEF ChatStream
<1>3. CASE Len(sc) > 1
  <2>1. op.op \in ChatOps \ {"finish"} /\ (op.op = "role" => fs = <<>>)
    BY <1>1, <1>2, <1>3, FlowRanks, FreshStart
  <2> HIDE DEF op
  <2>2. Shape(gs, NoIndex, 0)
    BY <1>1, <1>2, <2>1, ChatEmits
  <2> HIDE DEF gs
  <2>3. Nests(gs) /\ gs \in Seq(Frames)
    BY <2>2 DEF Shape
  <2>4. ChatStream(Tail(sc), s, gs)
    BY <1>1, <1>2, <2>2 DEF ChatStream
  <2> QED BY <2>3, <2>4 DEF gs, op
<1>4. CASE Len(sc) = 1
  <2>1. Rank(op.op) = 6
    BY <1>4, FlowRanks
  <2>2. op.op = "finish"
    BY <1>1, <1>2, <2>1, RanksAre DEF Ranks, ChatOps
  <2> HIDE DEF op
  <2>3. Nests(gs) /\ gs \in Seq(Frames)
    BY <1>1, <1>2, <2>2, ChatEnds
  <2> QED BY <1>4, <2>3 DEF op
<1> QED BY <1>3, <1>4, FlowRanks

LEMMA ResponsesWrites ==
  ASSUME NEW sc, NEW s, NEW fs, Flows(sc), Fresh(sc, fs), ResponsesStream(sc, s, fs)
  PROVE  LET step == EmitResponses(s, Head(sc))
             gs == fs \o step.frames
         IN /\ Len(sc) > 1 => ResponsesStream(Tail(sc), step.state, gs)
            /\ Nests(gs) /\ gs \in Seq(Frames) /\ step.state \in ResponsesStates
<1> DEFINE op == Head(sc)
           step == EmitResponses(s, op)
           gs == fs \o step.frames
<1>1. op \in Ops /\ op.op \in OpsOf(sc) /\ OpsOf(sc) = {op.op} \cup OpsOf(Tail(sc))
  BY FlowsOn
<1>2. /\ OpsOf(sc) \subseteq ResponsesOps /\ ResponsesGood(s, fs)
      /\ "text" \in OpsOf(sc) \/ s.messageOpen => "close" \in OpsOf(sc)
  BY DEF ResponsesStream
<1>3. Rank(op.op) > 4 => ~s.messageOpen
  <2>1. Rank("close") = 4 /\ Rank("close") \in 0..6
    BY RanksAre DEF Ranks
  <2>2. Rank(op.op) > 4 => "close" \notin OpsOf(sc)
    BY <2>1, Passed
  <2> QED BY <1>2, <2>2
<1>4. CASE Len(sc) > 1
  <2>1. op.op \in ResponsesOps \ {"complete"} /\ (op.op = "start" => fs = <<>>)
    BY <1>1, <1>2, <1>4, FlowRanks, FreshStart
  <2>2. op.op = "call" => ~s.messageOpen
    <3>1. op.op = "call" => Rank(op.op) = 5
      BY RanksAre DEF Ranks
    <3> QED BY <1>3, <3>1
  <2> HIDE DEF op
  <2>3. /\ ResponsesGood(step.state, gs)
        /\ op.op = "close" => ~step.state.messageOpen
        /\ step.state.messageOpen => s.messageOpen \/ op.op = "text"
    BY <1>1, <1>2, <2>1, <2>2, ResponsesEmits
  <2> HIDE DEF step, gs
  <2>4. Nests(gs) /\ gs \in Seq(Frames) /\ step.state \in ResponsesStates
    BY <2>3 DEF ResponsesGood, Shape
  <2>5. "text" \in OpsOf(Tail(sc)) \/ step.state.messageOpen => "close" \in OpsOf(Tail(sc))
    <3> SUFFICES ASSUME "text" \in OpsOf(Tail(sc)) \/ step.state.messageOpen
                 PROVE  "close" \in OpsOf(Tail(sc))
      OBVIOUS
    <3>1. "text" \in OpsOf(sc) \/ s.messageOpen
      BY <1>1, <2>3
    <3>2. "close" \in OpsOf(sc)
      BY <1>2, <3>1
    <3>3. op.op # "close"
      <4> SUFFICES ASSUME op.op = "close" PROVE FALSE
        OBVIOUS
      <4>1. "text" \in OpsOf(Tail(sc))
        BY <2>3
      <4>2. Rank(op.op) = 4 /\ Rank("text") = 3
        BY RanksAre DEF Ranks
      <4>3. \/ Rank(op.op) < Rank("text")
            \/ Rank(op.op) = Rank("text") /\ Rank("text") \in {1, 3, 5}
        BY <4>1, FlowsOn DEF op
      <4> QED BY <4>2, <4>3
    <3> QED BY <1>1, <3>2, <3>3
  <2>6. ResponsesStream(Tail(sc), step.state, gs)
    BY <1>1, <1>2, <2>3, <2>5 DEF ResponsesStream
  <2> QED BY <2>4, <2>6 DEF gs, step, op
<1>5. CASE Len(sc) = 1
  <2>1. Rank(op.op) = 6
    BY <1>5, FlowRanks
  <2>2. op.op = "complete" /\ ~s.messageOpen
    BY <1>1, <1>2, <1>3, <2>1, RanksAre DEF Ranks, ResponsesOps
  <2> HIDE DEF op
  <2>3. Nests(gs) /\ gs \in Seq(Frames) /\ step.state \in ResponsesStates
    BY <1>1, <1>2, <2>2, ResponsesEnds
  <2> QED BY <1>5, <2>3 DEF op
<1> QED BY <1>4, <1>5, FlowRanks

(* In a script with text the end of the text comes before the first tool    *)
(* call, so no block is open then; with thinking, the mark comes before the *)
(* text.                                                                    *)
LEMMA MessagesWrites ==
  ASSUME NEW sc, NEW s, NEW fs, Flows(sc), Fresh(sc, fs), MessagesStream(sc, s, fs)
  PROVE  LET step == EmitMessages(s, Head(sc))
             gs == fs \o step.frames
         IN /\ Len(sc) > 1 => MessagesStream(Tail(sc), step.state, gs)
            /\ Nests(gs) /\ gs \in Seq(Frames) /\ step.state \in MessageStates
<1> DEFINE op == Head(sc)
           step == EmitMessages(s, op)
           gs == fs \o step.frames
           rest == OpsOf(Tail(sc))
<1>1. op \in Ops /\ op.op \in OpsOf(sc) /\ OpsOf(sc) = {op.op} \cup rest
  BY FlowsOn
<1>2. /\ OpsOf(sc) \subseteq MessagesOps
      /\ "think" \in OpsOf(sc) => "prepare" \in OpsOf(sc)
      /\ "text" \in OpsOf(sc) \/ s.textOpen => "close" \in OpsOf(sc)
      /\ "prepare" \in OpsOf(sc) => ThinkingGood(s, fs)
      /\ "prepare" \notin OpsOf(sc) => SpeakingGood(s, fs)
  BY DEF MessagesStream
<1>3. /\ \A x \in rest : \/ Rank(op.op) < Rank(x)
                         \/ Rank(op.op) = Rank(x) /\ Rank(x) \in {1, 3, 5}
  BY FlowsOn
<1>4. Ranks
  BY RanksAre
<1>5. Len(sc) > 1 => op.op \notin {"complete", "finish"}
  BY FlowRanks
<1>6. op.op = "start" => fs = <<>>
  BY FreshStart
<1> HIDE DEF op, rest
<1>7. /\ op.op \in {"text", "close", "call", "complete"} => "prepare" \notin OpsOf(sc)
      /\ op.op \in {"call", "complete"} => "close" \notin OpsOf(sc)
      /\ op.op \in {"close", "call", "complete"} => "text" \notin rest
      /\ op.op \in {"prepare", "close"} => op.op \notin rest
      /\ op.op \in {"prepare", "text", "close", "call", "complete"} => "think" \notin rest
  BY <1>1, <1>3, <1>4 DEF Ranks
<1>8. op.op \in {"call", "complete"} => SpeakingGood(s, fs) /\ ~s.textOpen
  BY <1>2, <1>7
<1>9. CASE op.op = "start" /\ Len(sc) > 1
  <2>1. /\ ThinkingGood(s, fs) => ThinkingGood(step.state, gs)
        /\ SpeakingGood(s, fs) => SpeakingGood(step.state, gs)
        /\ step.state = s
    BY <1>1, <1>6, <1>9, MessageStarts
  <2> HIDE DEF step, gs
  <2>2. "think" \in rest \/ "prepare" \in rest \/ "text" \in rest \/ "close" \in rest
          => \A x \in {"think", "prepare", "text", "close"} : x \in rest <=> x \in OpsOf(sc)
    BY <1>1, <1>9
  <2>3. \A x \in {"think", "prepare", "text", "close"} : x \in rest <=> x \in OpsOf(sc)
    BY <1>1, <1>9
  <2>4. MessagesStream(Tail(sc), step.state, gs)
    BY <1>1, <1>2, <2>1, <2>3 DEF MessagesStream, rest
  <2>5. Nests(gs) /\ gs \in Seq(Frames) /\ step.state \in MessageStates
    BY <2>4 DEF MessagesStream, ThinkingGood, SpeakingGood, Shape
  <2> QED BY <2>4, <2>5 DEF gs, step, op
<1>10. CASE op.op = "think"
  <2>1. "prepare" \in OpsOf(sc) /\ ThinkingGood(s, fs) /\ "prepare" \in rest
    BY <1>1, <1>2, <1>10
  <2>2. ThinkingGood(step.state, gs)
    BY <1>1, <1>10, <2>1, MessageThinks
  <2> HIDE DEF step, gs
  <2>3. Nests(gs) /\ gs \in Seq(Frames) /\ step.state \in MessageStates /\ ~step.state.textOpen
    BY <2>2 DEF ThinkingGood, Shape
  <2>4. "text" \in rest => "close" \in rest
    BY <1>1, <1>2, <1>10
  <2>5. MessagesStream(Tail(sc), step.state, gs)
    BY <1>1, <1>2, <2>1, <2>2, <2>3, <2>4 DEF MessagesStream, rest
  <2> QED BY <2>3, <2>5 DEF gs, step, op
<1>11. CASE op.op = "prepare"
  <2>1. ThinkingGood(s, fs) /\ "prepare" \notin rest /\ "think" \notin rest
    BY <1>1, <1>2, <1>7, <1>11
  <2>2. SpeakingGood(step.state, gs) /\ ~step.state.textOpen
    BY <1>1, <1>11, <2>1, MessagePrepares
  <2> HIDE DEF step, gs
  <2>3. Nests(gs) /\ gs \in Seq(Frames) /\ step.state \in MessageStates
    BY <2>2 DEF SpeakingGood, Shape
  <2>4. "text" \in rest => "close" \in rest
    BY <1>1, <1>2, <1>11
  <2>5. MessagesStream(Tail(sc), step.state, gs)
    BY <1>1, <1>2, <2>1, <2>2, <2>4 DEF MessagesStream, rest
  <2> QED BY <2>3, <2>5 DEF gs, step, op
<1>12. CASE op.op = "text"
  <2>1. SpeakingGood(s, fs) /\ "prepare" \notin rest /\ "think" \notin rest
    BY <1>1, <1>2, <1>7, <1>12
  <2>2. SpeakingGood(step.state, gs)
    BY <1>1, <1>12, <2>1, MessageSpeaks
  <2> HIDE DEF step, gs
  <2>3. Nests(gs) /\ gs \in Seq(Frames) /\ step.state \in MessageStates
    BY <2>2 DEF SpeakingGood, Shape
  <2>4. "close" \in rest
    BY <1>1, <1>2, <1>12
  <2>5. MessagesStream(Tail(sc), step.state, gs)
    BY <1>1, <1>2, <2>1, <2>2, <2>4 DEF MessagesStream, rest
  <2> QED BY <2>3, <2>5 DEF gs, step, op
<1>13. CASE op.op = "close"
  <2>1. SpeakingGood(s, fs) /\ "prepare" \notin rest /\ "think" \notin rest /\ "text" \notin rest
    BY <1>1, <1>2, <1>7, <1>13
  <2>2. SpeakingGood(step.state, gs) /\ ~step.state.textOpen
    BY <1>1, <1>13, <2>1, MessageCloses
  <2> HIDE DEF step, gs
  <2>3. Nests(gs) /\ gs \in Seq(Frames) /\ step.state \in MessageStates
    BY <2>2 DEF SpeakingGood, Shape
  <2>5. MessagesStream(Tail(sc), step.state, gs)
    BY <1>1, <1>2, <2>1, <2>2 DEF MessagesStream, rest
  <2> QED BY <2>3, <2>5 DEF gs, step, op
<1>14. CASE op.op = "call"
  <2>1. SpeakingGood(s, fs) /\ ~s.textOpen /\ "prepare" \notin rest /\ "think" \notin rest
        /\ "text" \notin rest
    BY <1>1, <1>7, <1>8, <1>14
  <2>2. SpeakingGood(step.state, gs) /\ ~step.state.textOpen
    BY <1>1, <1>14, <2>1, MessageCalls
  <2> HIDE DEF step, gs
  <2>3. Nests(gs) /\ gs \in Seq(Frames) /\ step.state \in MessageStates
    BY <2>2 DEF SpeakingGood, Shape
  <2>5. MessagesStream(Tail(sc), step.state, gs)
    BY <1>1, <1>2, <2>1, <2>2 DEF MessagesStream, rest
  <2> QED BY <2>3, <2>5 DEF gs, step, op
<1>15. CASE op.op = "complete"
  <2>1. SpeakingGood(s, fs) /\ ~s.textOpen
    BY <1>8, <1>15
  <2>2. Nests(gs) /\ gs \in Seq(Frames) /\ step.state \in MessageStates
    BY <1>1, <1>15, <2>1, MessageEnds
  <2> QED BY <1>5, <1>15, <2>2 DEF op
<1>16. op.op \in MessagesOps /\ (op.op = "start" => Len(sc) > 1)
  <2>1. op.op \in MessagesOps
    BY <1>1, <1>2
  <2>2. Len(sc) = 1 => Rank(op.op) = 6
    BY FlowRanks DEF op
  <2> QED BY <1>4, <2>1, <2>2, FlowRanks DEF Ranks
<1> QED BY <1>9, <1>10, <1>11, <1>12, <1>13, <1>14, <1>15, <1>16 DEF MessagesOps, op

-----------------------------------------------------------------------------
(* What Kiro says keeps the types of what it said, is saying, and of what   *)
(* was heard.                                                               *)

(* A call that Kiro has begun. *)
CallsUnderWay == [open : {TRUE}, id : Nat, name : Names, input : Texts, rest : Texts]

LEMMA MidSets ==
  ASSUME NEW H, NEW m \in MidsWith(H)
  PROVE  /\ [m EXCEPT !.events = @ + 1] \in MidsWith(H)
         /\ [m EXCEPT !.over = TRUE] \in MidsWith(H)
         /\ \A t \in Texts : /\ [m EXCEPT !.last = t] \in MidsWith(H)
                             /\ [m EXCEPT !.thought = t, !.tag = "none"] \in MidsWith(H)
                             /\ [m EXCEPT !.tag = "open", !.last = t] \in MidsWith(H)
                             /\ [m EXCEPT !.tag = "closed", !.last = t] \in MidsWith(H)
         /\ \A c \in CallsUnderWay \cup {NoCall} : [m EXCEPT !.call = c] \in MidsWith(H)
         /\ \A s \in Seq(ToolUses) : [m EXCEPT !.events = @ + 1, !.silent = s] \in MidsWith(H)
<1>0. m.events + 1 \in Nat /\ m.events \in Nat
  BY DEF MidsWith
<1>1. [m EXCEPT !.events = @ + 1] \in MidsWith(H) /\ [m EXCEPT !.over = TRUE] \in MidsWith(H)
  <2> DEFINE n == m.events + 1
  <2>1. n \in Nat
    BY <1>0
  <2> HIDE DEF n
  <2>2. [m EXCEPT !.events = n] \in MidsWith(H)
    BY <2>1 DEF MidsWith
  <2>3. [m EXCEPT !.over = TRUE] \in MidsWith(H)
    BY DEF MidsWith
  <2> QED BY <2>2, <2>3 DEF n
<1>2. ASSUME NEW t \in Texts
      PROVE  /\ [m EXCEPT !.last = t] \in MidsWith(H)
             /\ [m EXCEPT !.thought = t, !.tag = "none"] \in MidsWith(H)
             /\ [m EXCEPT !.tag = "open", !.last = t] \in MidsWith(H)
             /\ [m EXCEPT !.tag = "closed", !.last = t] \in MidsWith(H)
  <2>1. [m EXCEPT !.last = t] \in MidsWith(H)
    BY DEF MidsWith
  <2>2. [m EXCEPT !.thought = t, !.tag = "none"] \in MidsWith(H)
    BY DEF MidsWith
  <2>3. [m EXCEPT !.tag = "open", !.last = t] \in MidsWith(H)
    BY DEF MidsWith
  <2>4. [m EXCEPT !.tag = "closed", !.last = t] \in MidsWith(H)
    BY DEF MidsWith
  <2> QED BY <2>1, <2>2, <2>3, <2>4
<1>3. \A c \in CallsUnderWay \cup {NoCall} : [m EXCEPT !.call = c] \in MidsWith(H)
  BY DEF MidsWith, CallsUnderWay
<1>4. ASSUME NEW s \in Seq(ToolUses)
      PROVE  [m EXCEPT !.events = @ + 1, !.silent = s] \in MidsWith(H)
  <2> DEFINE n == m.events + 1
             T == Seq(ToolUses)
  <2>1. n \in Nat /\ s \in T
    BY <1>0
  <2> HIDE DEF n, T
  <2>2. [m EXCEPT !.events = n, !.silent = s] \in MidsWith(H)
    BY <2>1 DEF MidsWith, T
  <2> QED BY <2>2 DEF n
<1> QED BY Zenon, <1>1, <1>2, <1>3, <1>4

LEMMA MidFields ==
  ASSUME NEW m \in Mids
  PROVE  /\ m.events \in Nat /\ m.last \in Texts /\ m.thought \in Texts
         /\ m.tag \in {"none", "open", "closed"}
         /\ m.call \in CallsUnderWay \cup {NoCall}
         /\ m.half \in Seq([said : Outcomes, mid : MidsWith({<<>>})])
         /\ m.silent \in Seq(ToolUses) /\ m.over \in BOOLEAN
         /\ m.half = <<>> => m \in MidsWith({<<>>})
<1>1. m.half = <<>> => m \in MidsWith({<<>>})
  BY DEF Mids, MidsWith
<1> QED BY <1>1 DEF Mids, MidsWith, CallsUnderWay

LEMMA WholeMids == ASSUME NEW m \in MidsWith({<<>>}) PROVE m \in Mids
<1>1. <<>> \in Seq([said : Outcomes, mid : MidsWith({<<>>})])
  OBVIOUS
<1> QED BY <1>1 DEF Mids, MidsWith

LEMMA HalfMid ==
  ASSUME NEW m \in MidsWith({<<>>}), NEW h \in Seq([said : Outcomes, mid : MidsWith({<<>>})])
  PROVE  [m EXCEPT !.half = h] \in Mids
BY DEF Mids, MidsWith

LEMMA CalledType ==
  ASSUME NEW s \in Outcomes, NEW use \in ToolUses PROVE Called(s, use) \in Outcomes
<1>1. Append(s.calls, use) \in Seq(ToolUses)
  BY OutcomeFields
<1>2. [s EXCEPT !.calls = Append(@, use)] \in Outcomes
  BY <1>1, OutcomeWithCalls
<1> QED BY <1>2 DEF Called

LEMMA UseType == ASSUME NEW call \in CallsUnderWay PROVE Use(call) \in ToolUses /\ call.open
BY DEF Use, ToolUse, ToolUses, CallsUnderWay

LEMMA OpenCall == ASSUME NEW c \in CallsUnderWay \cup {NoCall}, c.open PROVE c \in CallsUnderWay
BY DEF NoCall

LEMMA EventType ==
  ASSUME NEW kind \in {"content", "thinking", "tool_start", "tool_input", "tool_stop"},
         NEW piece \in Texts, NEW id \in Nat, NEW name \in Names, NEW stop \in BOOLEAN
  PROVE  Event(kind, piece, id, name, stop) \in Events
BY DEF Event, Events

LEMMA PlainEvent ==
  ASSUME NEW kind \in {"content", "thinking", "tool_start", "tool_input", "tool_stop"},
         NEW piece \in Texts
  PROVE  Text(kind, piece) \in Events
BY SmallTexts DEF Text, Event, Events

(* What is kept while Kiro speaks. *)
KiroUp == said \in Outcomes /\ mid \in Mids /\ heard \in Parsers

LEMMA SendsKeeps ==
  ASSUME KiroUp, NEW e \in Events, NEW after \in Outcomes, NEW then \in MidsWith({<<>>}),
         Sends(e, after, then)
  PROVE  KiroUp'
<1> DEFINE next == [then EXCEPT !.events = @ + 1]
           h == <<[said |-> after, mid |-> next]>>
<1>1. next \in MidsWith({<<>>})
  BY Zenon, MidSets
<1>2. mid.half = <<>> /\ mid \in Mids /\ heard \in Parsers /\ said \in Outcomes
  BY DEF Sends, KiroUp
<1>3. mid \in MidsWith({<<>>}) /\ next \in Mids
  BY <1>1, <1>2, MidFields, WholeMids
<1>4. \/ heard' = Feed(heard, "whole", e) /\ said' = after /\ mid' = next
      \/ heard' = Feed(heard, "head", e) /\ said' = said /\ mid' = [mid EXCEPT !.half = h]
  BY DEF Sends
<1> HIDE DEF next
<1>5. h \in Seq([said : Outcomes, mid : MidsWith({<<>>})])
  BY <1>1
<1> HIDE DEF h
<1>6. [mid EXCEPT !.half = h] \in Mids
  BY <1>3, <1>5, HalfMid
<1>7. Feed(heard, "whole", e) \in Parsers /\ Feed(heard, "head", e) \in Parsers
  BY <1>2, FeedType
<1> QED BY <1>2, <1>3, <1>4, <1>6, <1>7 DEF KiroUp

LEMMA SendsRestKeeps == ASSUME KiroUp, SendsRest PROVE KiroUp'
<1> DEFINE R == [said : Outcomes, mid : MidsWith({<<>>})]
           h == mid.half
<1>1. heard \in Parsers /\ mid \in Mids
  BY DEF KiroUp
<1>2. h \in Seq(R) /\ h # <<>>
  BY <1>1, MidFields DEF SendsRest
<1>3. h[1] \in R
  <2> HIDE DEF R, h
  <2> QED BY <1>2
<1>4. h[1].said \in Outcomes /\ h[1].mid \in MidsWith({<<>>})
  BY <1>3
<1>5. h[1].mid \in Mids
  BY <1>4, WholeMids
<1>7. \A e \in Events : Feed(heard, "tail", NoHalf) \in Parsers
  BY <1>1, FeedType
<1>8. Text("content", <<>>) \in Events
  <2>1. "content" \in {"content", "thinking", "tool_start", "tool_input", "tool_stop"}
    OBVIOUS
  <2> QED BY <2>1, PlainEvent, SmallTexts
<1>9. Feed(heard, "tail", NoHalf) \in Parsers
  BY <1>7, <1>8
<1> QED BY <1>4, <1>5, <1>9 DEF SendsRest, KiroUp

Kinds == {"content", "thinking", "tool_start", "tool_input", "tool_stop"}

LEMMA KindsAre ==
  /\ "content" \in Kinds /\ "thinking" \in Kinds /\ "tool_start" \in Kinds
  /\ "tool_input" \in Kinds /\ "tool_stop" \in Kinds
BY DEF Kinds

LEMMA Ready ==
  ASSUME KiroUp, NEW e, NEW after, NEW then, Sends(e, after, then)
  PROVE  mid \in MidsWith({<<>>})
BY MidFields DEF Sends, KiroUp

LEMMA SpeaksKeeps == ASSUME KiroUp, Speaks PROVE KiroUp'
<1> DEFINE after(piece) == IF mid.tag = "open" THEN [said EXCEPT !.thinking = @ \o piece]
                           ELSE [said EXCEPT !.text = @ \o piece]
<1>1. PICK piece \in Pieces : Sends(Text("content", piece), after(piece), [mid EXCEPT !.last = piece])
  BY DEF Speaks
<1>2. piece \in Texts /\ said \in Outcomes
  BY ProvidersAssumption DEF KiroUp
<1>3. Text("content", piece) \in Events
  BY <1>2, PlainEvent, KindsAre DEF Kinds
<1>4. after(piece) \in Outcomes
  BY <1>2, OutcomeFields, JoinTexts, OutcomeWithText
<1>5. [mid EXCEPT !.last = piece] \in MidsWith({<<>>})
  BY Zenon, <1>1, <1>2, Ready, MidSets
<1> HIDE DEF after
<1> QED BY <1>1, <1>3, <1>4, <1>5, SendsKeeps

LEMMA ThinkingKeeps ==
  ASSUME KiroUp, OpensThinking \/ ClosesThinking \/ Thinks PROVE KiroUp'
<1>0. said \in Outcomes
  BY DEF KiroUp
<1>1. CASE OpensThinking
  <2> DEFINE e == Text("content", <<"<">>)
             then == [mid EXCEPT !.tag = "open", !.last = <<"<">>]
  <2>1. Sends(e, said, then)
    BY <1>1 DEF OpensThinking
  <2>2. e \in Events
    BY PlainEvent, KindsAre, SmallTexts DEF Kinds
  <2>3. then \in MidsWith({<<>>})
    BY Zenon, <2>1, Ready, MidSets, SmallTexts
  <2> HIDE DEF e, then
  <2> QED BY <1>0, <2>1, <2>2, <2>3, SendsKeeps
<1>2. CASE ClosesThinking
  <2> DEFINE e == Text("content", <<">">>)
             then == [mid EXCEPT !.tag = "closed", !.last = <<">">>]
  <2>1. Sends(e, said, then)
    BY <1>2 DEF ClosesThinking
  <2>2. e \in Events
    BY PlainEvent, KindsAre, SmallTexts DEF Kinds
  <2>3. then \in MidsWith({<<>>})
    BY Zenon, <2>1, Ready, MidSets, SmallTexts
  <2> HIDE DEF e, then
  <2> QED BY <1>0, <2>1, <2>2, <2>3, SendsKeeps
<1>3. CASE Thinks
  <2>1. PICK piece \in Pieces :
          Sends(Text("thinking", piece), [said EXCEPT !.thinking = @ \o piece],
                [mid EXCEPT !.thought = piece, !.tag = "none"])
    BY <1>3 DEF Thinks
  <2> DEFINE e == Text("thinking", piece)
             after == [said EXCEPT !.thinking = @ \o piece]
             then == [mid EXCEPT !.thought = piece, !.tag = "none"]
  <2>2. piece \in Texts
    BY ProvidersAssumption
  <2>3. e \in Events
    BY <2>2, PlainEvent, KindsAre DEF Kinds
  <2>4. after \in Outcomes
    BY <1>0, <2>2, OutcomeFields, JoinTexts, OutcomeWithText
  <2>5. then \in MidsWith({<<>>})
    BY Zenon, <2>1, <2>2, Ready, MidSets
  <2>6. Sends(e, after, then)
    BY <2>1
  <2> HIDE DEF e, after, then
  <2> QED BY <2>3, <2>4, <2>5, <2>6, SendsKeeps
<1> QED BY <1>1, <1>2, <1>3

LEMMA RepeatsKeeps == ASSUME KiroUp, Repeats PROVE KiroUp'
<1>1. Sends(Text("content", mid.last), said, mid)
  BY DEF Repeats
<1>2. said \in Outcomes /\ mid.last \in Texts /\ mid \in MidsWith({<<>>})
  BY <1>1, Ready, MidFields DEF KiroUp
<1>3. Text("content", mid.last) \in Events
  BY <1>2, PlainEvent, KindsAre DEF Kinds
<1> QED BY <1>1, <1>2, <1>3, SendsKeeps

LEMMA SettledType == ASSUME KiroUp PROVE Settled \in Outcomes
<1>1. said \in Outcomes /\ mid.call \in CallsUnderWay \cup {NoCall}
  BY MidFields DEF KiroUp
<1>2. CASE mid.call.open
  <2>1. Use(mid.call) \in ToolUses
    BY <1>1, <1>2, OpenCall, UseType
  <2> QED BY <1>1, <1>2, <2>1, CalledType DEF Settled
<1> QED BY <1>1, <1>2 DEF Settled

LEMMA StartsCallKeeps == ASSUME KiroUp, StartsCall PROVE KiroUp'
<1>1. PICK i \in DOMAIN Tools, input \in Inputs : \E k \in {0, 1, Len(input)} :
        \E stop \in BOOLEAN :
        LET call == [open |-> TRUE, id |-> mid.events + 1, name |-> Tools[i],
                     input |-> input, rest |-> SubSeq(input, k + 1, Len(input))]
        IN Sends(Event("tool_start", SubSeq(input, 1, k), call.id, call.name, stop),
                 IF stop THEN Called(Settled, Use(call)) ELSE Settled,
                 [mid EXCEPT !.call = IF stop THEN NoCall ELSE call])
  <2>1. PICK i \in DOMAIN Tools, input \in Inputs : \E k \in {0, 1, Len(input)} :
          \E stop \in IF k = Len(input) THEN BOOLEAN ELSE {FALSE} :
          LET call == [open |-> TRUE, id |-> mid.events + 1, name |-> Tools[i],
                       input |-> input, rest |-> SubSeq(input, k + 1, Len(input))]
          IN Sends(Event("tool_start", SubSeq(input, 1, k), call.id, call.name, stop),
                   IF stop THEN Called(Settled, Use(call)) ELSE Settled,
                   [mid EXCEPT !.call = IF stop THEN NoCall ELSE call])
    BY DEF StartsCall
  <2>2. \A k : (IF k = Len(input) THEN BOOLEAN ELSE {FALSE}) \subseteq BOOLEAN
    OBVIOUS
  <2> QED BY <2>1, <2>2
<1>2. PICK k \in {0, 1, Len(input)}, stop \in BOOLEAN :
        LET call == [open |-> TRUE, id |-> mid.events + 1, name |-> Tools[i],
                     input |-> input, rest |-> SubSeq(input, k + 1, Len(input))]
        IN Sends(Event("tool_start", SubSeq(input, 1, k), call.id, call.name, stop),
                 IF stop THEN Called(Settled, Use(call)) ELSE Settled,
                 [mid EXCEPT !.call = IF stop THEN NoCall ELSE call])
  BY <1>1
<1> DEFINE rest == SubSeq(input, k + 1, Len(input))
           given == SubSeq(input, 1, k)
           call == [open |-> TRUE, id |-> mid.events + 1, name |-> Tools[i],
                    input |-> input, rest |-> rest]
           e == Event("tool_start", given, call.id, call.name, stop)
           after == IF stop THEN Called(Settled, Use(call)) ELSE Settled
           then == [mid EXCEPT !.call = IF stop THEN NoCall ELSE call]
<1>3. Sends(e, after, then)
  BY <1>2
<1>4. /\ input \in Texts /\ input # <<>> /\ Tools[i] \in Names /\ mid.events \in Nat
      /\ mid \in MidsWith({<<>>})
  <2>1. input \in Texts /\ input # <<>> /\ Tools[i] \in Names
    BY ProvidersAssumption
  <2>2. mid \in Mids
    BY DEF KiroUp
  <2>3. mid.events \in Nat
    BY <2>2, MidFields
  <2>4. mid \in MidsWith({<<>>})
    <3> HIDE DEF e, after, then
    <3> QED BY <1>3, Ready
  <2> QED BY <2>1, <2>3, <2>4
<1>5. Len(input) \in Nat /\ Len(input) >= 1 /\ input \in Seq(Characters)
  BY <1>4 DEF Texts
<1>6. rest \in Texts /\ given \in Texts
  <2>1. k \in Nat /\ k <= Len(input)
    BY <1>5
  <2> DEFINE k1 == k + 1
             n == Len(input)
  <2>2. k1 \in Nat /\ k1 >= 1 /\ n \in Int /\ n <= Len(input) /\ k \in Int /\ 1 \in Nat /\ 1 >= 1
    BY <1>5, <2>1
  <2> HIDE DEF k1, n
  <2>3. SubSeq(input, k1, n) \in Seq(Characters)
    BY <1>5, <2>2, SubSeqIn
  <2>4. SubSeq(input, 1, k) \in Seq(Characters)
    BY <1>5, <2>1, <2>2, SubSeqIn
  <2> QED BY <2>3, <2>4 DEF Texts, k1, n
<1> HIDE DEF rest, given
<1>7. call \in CallsUnderWay
  BY <1>4, <1>6 DEF CallsUnderWay
<1>8. call.id \in Nat /\ call.name \in Names
  BY <1>4
<1> HIDE DEF call
<1>9. e \in Events
  <2> DEFINE kind == "tool_start"
  <2>1. kind \in {"content", "thinking", "tool_start", "tool_input", "tool_stop"}
    OBVIOUS
  <2> HIDE DEF kind
  <2>2. Event(kind, given, call.id, call.name, stop) \in Events
    BY <1>6, <1>8, <2>1, EventType
  <2> QED BY <2>2 DEF kind
<1>10. after \in Outcomes
  BY <1>7, SettledType, CalledType, UseType
<1>11. then \in MidsWith({<<>>})
  <2>1. (IF stop THEN NoCall ELSE call) \in CallsUnderWay \cup {NoCall}
    BY <1>7
  <2> QED BY Zenon, <1>4, <2>1, MidSets
<1> HIDE DEF e, after, then
<1> QED BY <1>3, <1>9, <1>10, <1>11, SendsKeeps

LEMMA CallGoesOn == ASSUME KiroUp, GivesInput \/ StopsCall PROVE KiroUp'
<1>1. mid.call.open /\ mid \in Mids /\ said \in Outcomes
  BY DEF GivesInput, StopsCall, KiroUp
<1>2. mid.call \in CallsUnderWay
  BY <1>1, MidFields, OpenCall
<1>3. CASE GivesInput
  <2> DEFINE e == Text("tool_input", mid.call.rest)
             c == [mid.call EXCEPT !.rest = <<>>]
             then == [mid EXCEPT !.call.rest = <<>>]
  <2>1. Sends(e, said, then)
    BY <1>3 DEF GivesInput
  <2>2. mid.call.rest \in Texts
    BY <1>2 DEF CallsUnderWay
  <2>3. e \in Events
    BY <2>2, PlainEvent, KindsAre DEF Kinds
  <2>4. c \in CallsUnderWay
    BY <1>2, SmallTexts DEF CallsUnderWay
  <2>5. then = [mid EXCEPT !.call = c]
    OBVIOUS
  <2>6. mid \in MidsWith({<<>>})
    <3> HIDE DEF e, then
    <3> QED BY <2>1, Ready
  <2> HIDE DEF then, c
  <2>7. then \in MidsWith({<<>>})
    BY Zenon, <2>4, <2>5, <2>6, MidSets
  <2> HIDE DEF e
  <2> QED BY <1>1, <2>1, <2>3, <2>7, SendsKeeps
<1>4. CASE StopsCall
  <2> DEFINE e == Event("tool_stop", <<>>, 0, "", TRUE)
             then == [mid EXCEPT !.call = NoCall]
  <2>1. Sends(e, Settled, then)
    BY <1>4 DEF StopsCall
  <2>2. e \in Events
    BY SmallTexts DEF Event, Events
  <2> HIDE DEF e
  <2>3. then \in MidsWith({<<>>})
    BY Zenon, <2>1, Ready, MidSets
  <2> HIDE DEF then
  <2> QED BY <2>1, <2>2, <2>3, SettledType, SendsKeeps
<1> QED BY <1>3, <1>4

LEMMA KiroSaysKeeps == ASSUME KiroUp, KiroSays PROVE KiroUp'
BY SpeaksKeeps, ThinkingKeeps, RepeatsKeeps, StartsCallKeeps, CallGoesOn, SendsRestKeeps
   DEF KiroSays

-----------------------------------------------------------------------------
(* The types of messages, and of what they show. *)

LEMMA PlainType == ASSUME NEW tag \in Nat PROVE Plain(tag) \in Seq(TextPieces)
BY DEF Plain, TextPieces

LEMMA JsonedType ==
  ASSUME NEW text \in Seq(TextPieces) PROVE Jsoned(text) \in Seq(TextPieces)
<1>0. \A e \in TextPieces : [e EXCEPT !.json = TRUE] \in TextPieces
  BY DEF TextPieces
<1>1. \A i \in DOMAIN text : [text[i] EXCEPT !.json = TRUE] \in TextPieces
  BY <1>0
<1> DEFINE t == [i \in DOMAIN text |-> [text[i] EXCEPT !.json = TRUE]]
<1>2. t \in [DOMAIN text -> TextPieces]
  BY <1>1
<1> HIDE DEF t
<1>3. t \in Seq(TextPieces)
  BY <1>2, MapInSeq
<1> QED BY <1>3 DEF t, Jsoned

LEMMA BlockType ==
  ASSUME NEW kind \in {"text", "thinking", "image", "result"}, NEW id \in Nat, NEW text \in Seq(TextPieces),
         NEW images \in Seq(ImageData)
  PROVE  Block(kind, id, text, images) \in Blocks
BY DEF Block, Blocks

LEMMA StrType ==
  ASSUME NEW words \in Seq(TextPieces) PROVE Str(words) \in Seq(Blocks)
<1>1. <<>> \in Seq(ImageData) /\ 0 \in Nat
  OBVIOUS
<1>2. Block("text", 0, words, <<>>) \in Blocks
  BY <1>1, BlockType
<1>3. TextBlock(words) \in Blocks
  BY <1>2 DEF TextBlock, NoId
<1> QED BY <1>3 DEF Str

LEMMA MessageType ==
  ASSUME NEW role \in Roles, NEW content \in Seq(Blocks), NEW calls \in Seq(ToolCalls),
         NEW answers \in Nat, NEW thinking \in BOOLEAN
  PROVE  Message(role, content, calls, answers, thinking) \in CanonicalMessages
BY DEF Message, CanonicalMessages

LEMMA OneBlock ==
  ASSUME NEW kind \in {"text", "thinking", "image", "result"}, NEW id \in Nat,
         NEW words \in Seq(TextPieces), NEW images \in Seq(ImageData)
  PROVE  <<Block(kind, id, words, images)>> \in Seq(Blocks)
<1>1. Block(kind, id, words, images) \in Blocks
  BY BlockType
<1> QED BY <1>1

LEMMA OneMessage ==
  ASSUME NEW role \in Roles, NEW content \in Seq(Blocks), NEW calls \in Seq(ToolCalls),
         NEW answers \in Nat, NEW thinking \in BOOLEAN
  PROVE  <<Message(role, content, calls, answers, thinking)>> \in Seq(CanonicalMessages)
<1>1. Message(role, content, calls, answers, thinking) \in CanonicalMessages
  BY MessageType
<1> QED BY <1>1

LEMMA BlockFields ==
  ASSUME NEW content \in Seq(Blocks), NEW i \in DOMAIN content
  PROVE  /\ content[i].id \in Nat
         /\ content[i].text \in Seq(TextPieces) /\ content[i].images \in Seq(ImageData)
<1>1. content[i] \in Blocks
  OBVIOUS
<1> QED BY <1>1 DEF Blocks

LEMMA ContentTextType ==
  ASSUME NEW content \in Seq(Blocks) PROVE ContentText(content) \in Seq(TextPieces)
<1> DEFINE ss == [i \in DOMAIN content |-> content[i].text]
<1>1. \A i \in DOMAIN content : content[i].text \in Seq(TextPieces)
  BY BlockFields
<1>2. ss \in [DOMAIN content -> Seq(TextPieces)]
  BY <1>1
<1> HIDE DEF ss
<1>3. ss \in Seq(Seq(TextPieces))
  BY <1>2, MapInSeq
<1>4. FlattenSeq(ss) \in Seq(TextPieces)
  BY <1>3, FlattenInSeq
<1> QED BY <1>4 DEF ContentText, ss

(* Also the JSON of a content is made of pieces. *)
LEMMA MarshalledType ==
  ASSUME NEW content \in Seq(Blocks) PROVE Marshalled(content) \in Seq(TextPieces)
<1> DEFINE im(i) == [j \in DOMAIN content[i].images |->
                        [tag |-> content[i].images[j].tag, json |-> TRUE]]
           ss == [i \in DOMAIN content |-> Jsoned(content[i].text) \o im(i)]
<1>1. ASSUME NEW i \in DOMAIN content PROVE Jsoned(content[i].text) \o im(i) \in Seq(TextPieces)
  <2>1. content[i].text \in Seq(TextPieces) /\ content[i].images \in Seq(ImageData)
    BY BlockFields
  <2>7. \A e \in ImageData : [tag |-> e.tag, json |-> TRUE] \in TextPieces
    BY DEF ImageData, TextPieces
  <2>2. \A j \in DOMAIN content[i].images :
          [tag |-> content[i].images[j].tag, json |-> TRUE] \in TextPieces
    <3>1. \A j \in DOMAIN content[i].images : content[i].images[j] \in ImageData
      BY <2>1
    <3> QED BY <2>7, <3>1
  <2> DEFINE t == im(i)
  <2>3. t \in [DOMAIN content[i].images -> TextPieces]
    BY <2>2
  <2> HIDE DEF t
  <2>4. t \in Seq(TextPieces)
    BY <2>1, <2>3, MapInSeq
  <2>5. im(i) \in Seq(TextPieces)
    BY <2>4 DEF t
  <2> HIDE DEF im
  <2>6. Jsoned(content[i].text) \in Seq(TextPieces)
    BY <2>1, JsonedType
  <2> QED BY <2>5, <2>6
<1>2. ss \in [DOMAIN content -> Seq(TextPieces)]
  BY <1>1
<1>4. Marshalled(content) = FlattenSeq(ss)
  BY DEF Marshalled
<1> HIDE DEF ss
<1>3. ss \in Seq(Seq(TextPieces))
  BY <1>2, MapInSeq
<1> QED
  BY <1>3, <1>4, FlattenInSeq

LEMMA VisibleTextType ==
  ASSUME NEW content \in Seq(Blocks) PROVE VisibleText(content) \in Seq(TextPieces)
BY ContentTextType, MarshalledType DEF VisibleText

-----------------------------------------------------------------------------
(* sanitizeToolHistory: what it leaves is paired. *)

NamedToolCalls == {c \in ToolCalls : c.named}

(* The step of NamedCalls. *)
KeepCall(kept, c) ==
  IF c.named /\ \A i \in DOMAIN kept : kept[i].id # c.id THEN Append(kept, c) ELSE kept

Naming == INSTANCE FoldFacts WITH Op <- KeepCall

LEMMA NamedCallsType ==
  ASSUME NEW calls \in Seq(ToolCalls) PROVE NamedCalls(calls) \in Seq(NamedToolCalls)
<1>1. \A a \in Seq(NamedToolCalls), e \in ToolCalls : KeepCall(a, e) \in Seq(NamedToolCalls)
  BY DEF KeepCall, NamedToolCalls
<1>2. <<>> \in Seq(NamedToolCalls)
  OBVIOUS
<1>3. Naming!Fold(<<>>, calls) \in Seq(NamedToolCalls)
  BY <1>1, <1>2, Naming!FoldStaysIn
<1>4. NamedCalls(calls) = Naming!Fold(<<>>, calls)
  BY DEF NamedCalls, FoldLeft, MapThenFoldSet, Naming!Fold, Naming!Largest, Max, KeepCall
<1> QED BY <1>3, <1>4

(* What the providers rely on: a result answers a call that an assistant    *)
(* made before, by name, and no result before it answers the same call.     *)
Paired(ms) ==
  \A i \in DOMAIN ms : ms[i].role = "tool" =>
    /\ \E j \in 1..(i - 1) : /\ ms[j].role = "assistant"
                             /\ \E k \in DOMAIN ms[j].calls :
                                  ms[j].calls[k].named /\ ms[j].calls[k].id = ms[i].answers
    /\ \A j \in 1..(i - 1) : ms[j].role = "tool" => ms[j].answers # ms[i].answers

Histories == [declared : SUBSET Nat, answered : SUBSET Nat, out : Seq(CanonicalMessages)]

(* What sanitizeToolHistory has seen when it goes on: the calls declared    *)
(* and answered are those of the messages it has let through.               *)
Kept == {acc \in Histories :
  /\ Paired(acc.out)
  /\ \A d \in acc.declared : \E j \in DOMAIN acc.out :
       /\ acc.out[j].role = "assistant"
       /\ \E k \in DOMAIN acc.out[j].calls :
            acc.out[j].calls[k].named /\ acc.out[j].calls[k].id = d
  /\ \A j \in DOMAIN acc.out : acc.out[j].role = "tool" => acc.out[j].answers \in acc.answered}

(* One message more leaves a history paired, if a result finds its call. *)
LEMMA PairedAfter ==
  ASSUME NEW out \in Seq(CanonicalMessages), Paired(out), NEW m \in CanonicalMessages,
         m.role = "tool" =>
           /\ \E j \in DOMAIN out : /\ out[j].role = "assistant"
                                    /\ \E k \in DOMAIN out[j].calls :
                                         out[j].calls[k].named /\ out[j].calls[k].id = m.answers
           /\ \A j \in DOMAIN out : out[j].role = "tool" => out[j].answers # m.answers
  PROVE  Paired(Append(out, m))
<1> DEFINE n == Len(out)
           new == Append(out, m)
<1>1. /\ n \in Nat /\ DOMAIN out = 1..n /\ DOMAIN new = 1..(n + 1)
      /\ \A j \in 1..n : new[j] = out[j]
      /\ new[n + 1] = m
  OBVIOUS
<1> HIDE DEF n, new
<1>2. ASSUME NEW i \in 1..(n + 1), new[i].role = "tool"
      PROVE  /\ \E j \in 1..(i - 1) : /\ new[j].role = "assistant"
                             /\ \E k \in DOMAIN new[j].calls :
                                  new[j].calls[k].named /\ new[j].calls[k].id = new[i].answers
             /\ \A j \in 1..(i - 1) : new[j].role = "tool" => new[j].answers # new[i].answers
  <2>1. CASE i = n + 1
    <3>1. i - 1 = n /\ 1..(i - 1) = 1..n
      BY <1>1, <2>1
    <3> QED BY <1>1, <1>2, <2>1, <3>1
  <2>2. CASE i # n + 1
    <3>1. i \in 1..n /\ \A j \in 1..(i - 1) : j \in 1..n /\ new[j] = out[j]
      BY <1>1, <2>2
    <3>2. new[i] = out[i]
      BY <1>1, <3>1
    <3> QED BY <1>1, <1>2, <3>1, <3>2 DEF Paired
  <2> QED BY <2>1, <2>2
<1> QED
  BY <1>1, <1>2 DEF Paired, new

(* Whatever message comes, and whether thinking is kept: every arm of the   *)
(* loop of sanitizeToolHistory.                                             *)
LEMMA SanitizedKeeps ==
  ASSUME NEW acc \in Kept, NEW m \in CanonicalMessages, NEW keep \in BOOLEAN
  PROVE  Sanitized(acc, m, keep) \in Kept
<1> DEFINE calls == NamedCalls(m.calls)
           silent == ContentText(m.content) = <<>>
           named == [m EXCEPT !.calls = calls]
           orphan == [m EXCEPT !.role = "user", !.answers = NoId]
           next == Sanitized(acc, m, keep)
<1>1. /\ m.role \in Roles /\ m.content \in Seq(Blocks) /\ m.calls \in Seq(ToolCalls)
      /\ m.answers \in Nat /\ m.thinking \in BOOLEAN
  BY DEF CanonicalMessages
<1>2. calls \in Seq(NamedToolCalls)
  BY <1>1, NamedCallsType
<1>3. /\ acc.declared \in SUBSET Nat /\ acc.answered \in SUBSET Nat
      /\ acc.out \in Seq(CanonicalMessages) /\ Paired(acc.out)
      /\ acc = [declared |-> acc.declared, answered |-> acc.answered, out |-> acc.out]
  BY DEF Kept, Histories
<1>4. \A d \in acc.declared : \E j \in DOMAIN acc.out :
        /\ acc.out[j].role = "assistant"
        /\ \E k \in DOMAIN acc.out[j].calls :
             acc.out[j].calls[k].named /\ acc.out[j].calls[k].id = d
  BY DEF Kept
<1>5. \A j \in DOMAIN acc.out : acc.out[j].role = "tool" => acc.out[j].answers \in acc.answered
  BY DEF Kept
<1>6. ASSUME NEW d, NEW a, NEW x \in CanonicalMessages,
             d \in SUBSET Nat, a \in SUBSET Nat, acc.answered \subseteq a,
             x.role = "tool" => x.answers \in acc.declared \ acc.answered /\ x.answers \in a,
             d \subseteq acc.declared \cup
                (IF x.role = "assistant"
                 THEN {x.calls[k].id : k \in {k \in DOMAIN x.calls : x.calls[k].named}} ELSE {})
      PROVE  [declared |-> d, answered |-> a, out |-> Append(acc.out, x)] \in Kept
  <2> DEFINE new == Append(acc.out, x)
             n == Len(acc.out)
  <2>1. Paired(new)
    BY <1>3, <1>4, <1>5, <1>6, PairedAfter
  <2>2. /\ n \in Nat /\ DOMAIN acc.out = 1..n /\ DOMAIN new = 1..(n + 1)
        /\ \A j \in 1..n : new[j] = acc.out[j]
        /\ new[n + 1] = x /\ new \in Seq(CanonicalMessages)
    BY <1>3
  <2> HIDE DEF new, n
  <2>3. ASSUME NEW e \in d
        PROVE  \E j \in DOMAIN new :
                 /\ new[j].role = "assistant"
                 /\ \E k \in DOMAIN new[j].calls : new[j].calls[k].named /\ new[j].calls[k].id = e
    <3>1. CASE e \in acc.declared
      BY <1>4, <2>2, <3>1
    <3>2. CASE e \notin acc.declared
      <4>1. x.role = "assistant" /\ \E k \in DOMAIN x.calls : x.calls[k].named /\ x.calls[k].id = e
        BY <1>6, <2>3, <3>2
      <4>2. n + 1 \in DOMAIN new
        BY <2>2
      <4> QED BY <2>2, <4>1, <4>2
    <3> QED BY <3>1, <3>2
  <2>4. \A j \in DOMAIN new : new[j].role = "tool" => new[j].answers \in a
    BY <1>5, <1>6, <2>2
  <2>5. [declared |-> d, answered |-> a, out |-> new] \in Histories
    BY <1>6, <2>2 DEF Histories
  <2> DEFINE h == [declared |-> d, answered |-> a, out |-> new]
  <2>6. h \in Histories /\ h.declared = d /\ h.answered = a /\ h.out = new
    BY <2>5
  <2> HIDE DEF h
  <2>7. h \in Kept
    BY <2>1, <2>3, <2>4, <2>6 DEF Kept
  <2> QED
    BY <2>7 DEF h, new
<1>7. named \in CanonicalMessages /\ named.role = m.role /\ named.calls = calls
  <2>1. calls \in Seq(ToolCalls)
    <3>1. NamedToolCalls \subseteq ToolCalls
      BY DEF NamedToolCalls
    <3> QED BY <1>2, <3>1
  <2> HIDE DEF calls
  <2> QED BY <1>1, <2>1 DEF CanonicalMessages
<1>8. orphan \in CanonicalMessages /\ orphan.role = "user"
  BY <1>1 DEF CanonicalMessages, NoId, Roles
<1>9. CASE m.role = "assistant" /\ m.calls # <<>>
  <2>1. CASE calls = <<>> /\ silent /\ ~(keep /\ m.thinking)
    BY <1>9, <2>1 DEF Sanitized
  <2>2. CASE ~(calls = <<>> /\ silent /\ ~(keep /\ m.thinking))
    <3> DEFINE ids == {calls[i].id : i \in DOMAIN calls}
    <3>1. next = [declared |-> acc.declared \cup ids, answered |-> acc.answered,
                  out |-> Append(acc.out, named)]
      <4>1. next = [[acc EXCEPT !.out = Append(@, named)] EXCEPT !.declared = @ \cup ids]
        BY <1>9, <2>2 DEF Sanitized
      <4> HIDE DEF named, ids, next, calls
      <4> QED BY <1>3, <4>1
    <3>2. ids \subseteq Nat /\ ids = {calls[k].id : k \in {k \in DOMAIN calls : calls[k].named}}
      <4>1. \A k \in DOMAIN calls : calls[k] \in NamedToolCalls
        BY <1>2
      <4>2. \A c \in NamedToolCalls : c.named /\ c.id \in Nat
        BY DEF NamedToolCalls, ToolCalls
      <4> HIDE DEF calls
      <4> QED BY <4>1, <4>2
    <3> HIDE DEF next, named, ids, calls
    <3>3. next \in Kept
      BY <1>3, <1>6, <1>7, <1>9, <3>1, <3>2
    <3> QED BY <3>3 DEF next
  <2> QED BY <2>1, <2>2
<1>10. CASE m.role = "tool" /\ m.answers \notin acc.declared
  <2>1. CASE silent
    BY <1>10, <2>1 DEF Sanitized
  <2>2. CASE ~silent
    <3>1. next = [declared |-> acc.declared, answered |-> acc.answered,
                  out |-> Append(acc.out, orphan)]
      <4>1. next = [acc EXCEPT !.out = Append(@, orphan)]
        <5>1. m.role # "assistant"
          BY <1>10
        <5> QED BY <1>10, <2>2, <5>1 DEF Sanitized
      <4> HIDE DEF orphan, next
      <4> QED BY <1>3, <4>1
    <3> HIDE DEF next, orphan
    <3>2. next \in Kept
      BY <1>3, <1>6, <1>8, <3>1
    <3> QED BY <3>2 DEF next
  <2> QED BY <2>1, <2>2
<1>11. CASE m.role = "tool" /\ m.answers \in acc.declared /\ m.answers \in acc.answered
  BY <1>11 DEF Sanitized
<1>12. CASE \/ m.role = "tool" /\ m.answers \in acc.declared /\ m.answers \notin acc.answered
            \/ m.role # "tool" /\ ~(m.role = "assistant" /\ m.calls # <<>>)
  <2> DEFINE a == IF m.role = "tool" THEN acc.answered \cup {m.answers} ELSE acc.answered
  <2>1. next = [declared |-> acc.declared, answered |-> a, out |-> Append(acc.out, m)]
    <3>1. next = [[acc EXCEPT !.out = Append(@, m)] EXCEPT !.answered =
                     IF m.role = "tool" THEN @ \cup {m.answers} ELSE @]
      BY <1>12 DEF Sanitized
    <3> HIDE DEF next
    <3> QED BY <1>3, <3>1
  <2>2. a \in SUBSET Nat /\ acc.answered \subseteq a /\ (m.role = "tool" => m.answers \in a)
    BY <1>1, <1>3
  <2> HIDE DEF next, a
  <2>3. next \in Kept
    BY <1>3, <1>6, <1>12, <2>1, <2>2
  <2> QED BY <2>3 DEF next
<1> QED
  BY <1>9, <1>10, <1>11, <1>12

SanitizeKeeping(acc, m) == Sanitized(acc, m, TRUE)

SanitizeDropping(acc, m) == Sanitized(acc, m, FALSE)

Keeping == INSTANCE FoldFacts WITH Op <- SanitizeKeeping

Dropping == INSTANCE FoldFacts WITH Op <- SanitizeDropping

NoHistory == [declared |-> {}, answered |-> {}, out |-> <<>>]

(* The whole of it. *)
LEMMA SanitizedHistory ==
  ASSUME NEW ms \in Seq(CanonicalMessages), NEW keep \in BOOLEAN
  PROVE  /\ SanitizeToolHistory(ms, keep) \in Seq(CanonicalMessages)
         /\ Paired(SanitizeToolHistory(ms, keep))
<1>1. NoHistory \in Kept
  <2>1. <<>> \in Seq(CanonicalMessages) /\ DOMAIN <<>> = {}
    OBVIOUS
  <2>2. NoHistory \in Histories
    BY <2>1 DEF NoHistory, Histories
  <2> QED BY <2>1, <2>2 DEF Kept, NoHistory, Paired
<1>2. \A acc \in Kept, m \in CanonicalMessages : SanitizeKeeping(acc, m) \in Kept
  BY SanitizedKeeps DEF SanitizeKeeping
<1>3. \A acc \in Kept, m \in CanonicalMessages : SanitizeDropping(acc, m) \in Kept
  BY SanitizedKeeps DEF SanitizeDropping
<1>4. Keeping!Fold(NoHistory, ms) \in Kept
  BY <1>1, <1>2, Keeping!FoldStaysIn
<1>5. Dropping!Fold(NoHistory, ms) \in Kept
  BY <1>1, <1>3, Dropping!FoldStaysIn
<1>6. SanitizeToolHistory(ms, TRUE) = Keeping!Fold(NoHistory, ms).out
  BY DEF SanitizeToolHistory, FoldLeft, MapThenFoldSet, Keeping!Fold, Keeping!Largest, Max, SanitizeKeeping, NoHistory
<1>7. SanitizeToolHistory(ms, FALSE) = Dropping!Fold(NoHistory, ms).out
  BY DEF SanitizeToolHistory, FoldLeft, MapThenFoldSet, Dropping!Fold, Dropping!Largest, Max, SanitizeDropping, NoHistory
<1>8. \A acc \in Kept : acc.out \in Seq(CanonicalMessages) /\ Paired(acc.out)
  BY DEF Kept, Histories
<1>9. keep = TRUE \/ keep = FALSE
  OBVIOUS
<1> QED
  BY <1>4, <1>5, <1>6, <1>7, <1>8, <1>9

-----------------------------------------------------------------------------
(* The decoders: the messages made of the bodies of the four protocols. *)

LEMMA PartType ==
  ASSUME NEW p \in Parts
  PROVE  /\ p.tag \in Nat /\ p.id \in Nat /\ p.by \in STRING /\ p.named \in BOOLEAN
         /\ Said(p) \in Seq(TextPieces) /\ Image(p) \in ImageData
         /\ Jsoned(Plain(p.tag)) \in Seq(TextPieces) /\ Plain(p.tag) \in Seq(TextPieces)
<1>1. p.tag \in Nat /\ p.id \in Nat /\ p.by \in STRING /\ p.named \in BOOLEAN
  BY DEF Parts
<1>2. Plain(p.tag) \in Seq(TextPieces)
  BY <1>1, PlainType
<1>3. Jsoned(Plain(p.tag)) \in Seq(TextPieces)
  BY <1>2, JsonedType
<1>4. Image(p) \in ImageData
  BY <1>1 DEF Image, ImageData
<1>5. <<>> \in Seq(TextPieces)
  OBVIOUS
<1> QED
  BY <1>1, <1>2, <1>3, <1>4, <1>5 DEF Said

LEMMA OpenAIPartType ==
  ASSUME NEW p \in Parts PROVE OpenAIPart(p) \in Seq(Blocks)
<1>1. /\ p.id \in Nat /\ Said(p) \in Seq(TextPieces) /\ Image(p) \in ImageData
  BY PartType
<1>2. <<>> \in Seq(ImageData) /\ <<>> \in Seq(Blocks) /\ <<>> \in Seq(TextPieces)
      /\ <<Image(p)>> \in Seq(ImageData)
  BY <1>1
<1>3. Str(Said(p)) \in Seq(Blocks)
  BY <1>1, StrType
<1>4. <<ImageBlock(Image(p))>> \in Seq(Blocks)
  <2>1. <<Block("image", 0, <<>>, <<Image(p)>>)>> \in Seq(Blocks)
    BY <1>2, OneBlock
  <2> QED BY <2>1 DEF ImageBlock, NoId
<1>5. <<ResultBlock(p.id, Said(p), <<>>)>> \in Seq(Blocks)
  BY <1>1, <1>2, OneBlock DEF ResultBlock
<1>6. <<ThinkingBlock(Said(p))>> \in Seq(Blocks)
  <2>1. <<Block("thinking", 0, Said(p), <<>>)>> \in Seq(Blocks)
    BY <1>1, <1>2, OneBlock
  <2> QED BY <2>1 DEF ThinkingBlock, NoId
<1> QED
  BY <1>2, <1>3, <1>4, <1>5, <1>6 DEF OpenAIPart

LEMMA OpenAIContentType ==
  ASSUME NEW parts \in Seq(Parts)
  PROVE  NormalizeOpenAIMessageContent(parts) \in Seq(Blocks)
<1> DEFINE ss == [i \in DOMAIN parts |-> OpenAIPart(parts[i])]
<1>1. \A i \in DOMAIN parts : parts[i] \in Parts
  OBVIOUS
<1>2. ss \in [DOMAIN parts -> Seq(Blocks)]
  BY <1>1, OpenAIPartType
<1> HIDE DEF ss
<1>3. FlattenSeq(ss) \in Seq(Blocks)
  BY <1>2, MapInSeq, FlattenInSeq
<1> QED BY <1>3 DEF ss, NormalizeOpenAIMessageContent

LEMMA CallType ==
  ASSUME NEW call, call.id \in Nat, call.tag \in Nat, call.named \in BOOLEAN
  PROVE  Call(call) \in ToolCalls
<1>1. IdOf(call) \in Nat \ {NoId}
  BY DEF IdOf, NewId, NoId
<1> QED BY <1>1 DEF Call, ToolCalls

LEMMA ChatMessageType ==
  ASSUME NEW item \in ChatItems PROVE ChatMessage(item) \in CanonicalMessages
<1> DEFINE CallItems == [id : Nat, named : BOOLEAN, tag : Nat]
           ss == [i \in DOMAIN item.calls |-> Call(item.calls[i])]
<1>1. /\ item.parts \in Seq(Parts) /\ item.id \in Nat /\ item.calls \in Seq(CallItems)
  BY DEF ChatItems
<1>2. \A c \in CallItems : Call(c) \in ToolCalls
  BY CallType
<1>3. ss \in [DOMAIN item.calls -> ToolCalls]
  <2> HIDE DEF CallItems
  <2>1. \A i \in DOMAIN item.calls : item.calls[i] \in CallItems
    BY <1>1
  <2> QED BY <1>2, <2>1
<1> HIDE DEF ss, CallItems
<1>4. ss \in Seq(ToolCalls)
  BY <1>1, <1>3, MapInSeq
<1>5. RoleFromString(item.role) \in Roles
  BY DEF RoleFromString, Roles
<1>6. NormalizeOpenAIMessageContent(item.parts) \in Seq(Blocks)
  BY <1>1, OpenAIContentType
<1>7. Message(RoleFromString(item.role), NormalizeOpenAIMessageContent(item.parts), ss,
              item.id, FALSE) \in CanonicalMessages
  BY <1>1, <1>4, <1>5, <1>6, MessageType
<1> QED BY <1>7 DEF ChatMessage, ss

LEMMA InputItemType ==
  ASSUME NEW item \in InputItems PROVE ResponsesInputItem(item) \in Seq(CanonicalMessages)
<1> DEFINE content == NormalizeOpenAIMessageContent(item.parts)
           jsoned == Jsoned(Plain(item.tag))
           words == Said(item)
           called == <<Call(item)>>
           result == <<ResultBlock(item.id, words, <<>>)>>
<1>1. item.parts \in Seq(Parts) /\ item.id \in Nat /\ item.tag \in Nat /\ item.named \in BOOLEAN
  BY DEF InputItems
<1>2. content \in Seq(Blocks)
  BY <1>1, OpenAIContentType
<1>3. words \in Seq(TextPieces) /\ jsoned \in Seq(TextPieces)
  <2>1. Plain(item.tag) \in Seq(TextPieces) /\ <<>> \in Seq(TextPieces)
    BY <1>1, PlainType
  <2> QED BY <2>1, JsonedType DEF Said
<1>4. /\ <<>> \in Seq(ImageData) /\ <<>> \in Seq(Blocks) /\ <<>> \in Seq(ToolCalls)
      /\ <<>> \in Seq(CanonicalMessages)
  OBVIOUS
<1>5. called \in Seq(ToolCalls)
  <2>1. Call(item) \in ToolCalls
    BY <1>1, CallType
  <2> QED BY <2>1
<1>6. result \in Seq(Blocks)
  BY <1>1, <1>3, <1>4, OneBlock DEF ResultBlock
<1>7. Str(words) \in Seq(Blocks) /\ Str(jsoned) \in Seq(Blocks)
  BY <1>3, StrType
<1> HIDE DEF content, jsoned, words, called, result
<1>8. RoleFromString(item.role) \in Roles /\ {"user", "assistant", "tool"} \subseteq Roles
  BY DEF RoleFromString, Roles
<1> DEFINE fallback == IF ContentEmpty(content) THEN Str(jsoned) ELSE content
           M == Seq(CanonicalMessages)
<1>9. fallback \in Seq(Blocks)
  BY <1>2, <1>7
<1> HIDE DEF fallback
<1>10. FALSE \in BOOLEAN /\ NoId \in Nat
  BY DEF NoId
<1>11. /\ <<Message(RoleFromString(item.role), content, <<>>, NoId, FALSE)>> \in M
       /\ <<Message("assistant", <<>>, called, NoId, FALSE)>> \in M
       /\ <<Message("tool", result, <<>>, item.id, FALSE)>> \in M
       /\ <<Message("user", Str(words), <<>>, NoId, FALSE)>> \in M
       /\ <<Message("assistant", Str(words), <<>>, NoId, FALSE)>> \in M
       /\ <<Message("user", fallback, <<>>, NoId, FALSE)>> \in M
       /\ <<>> \in M
  BY <1>1, <1>2, <1>4, <1>5, <1>6, <1>7, <1>8, <1>9, <1>10, OneMessage
<1> HIDE DEF M
<1>12. ResponsesInputItem(item) \in M
  BY <1>11 DEF ResponsesInputItem, content, jsoned, words, called, result, fallback
<1> QED BY <1>12 DEF M

LEMMA PartsOfType ==
  ASSUME NEW parts \in Seq(Parts), NEW kind PROVE PartsOf(parts, kind) \in Seq(Parts)
<1> DEFINE ss == [i \in DOMAIN parts |-> IF parts[i].kind = kind THEN <<parts[i]>> ELSE <<>>]
<1>1. ss \in [DOMAIN parts -> Seq(Parts)]
  OBVIOUS
<1>2. PartsOf(parts, kind) = FlattenSeq(ss)
  BY DEF PartsOf, Only
<1> HIDE DEF ss
<1> QED BY <1>1, <1>2, MapInSeq, FlattenInSeq

LEMMA VisiblePartsType ==
  ASSUME NEW parts \in Seq(Parts) PROVE VisibleParts(parts) \in Seq(TextPieces)
<1> DEFINE ss == [i \in DOMAIN parts |->
                    CASE parts[i].kind = "text" -> Said(parts[i])
                      [] parts[i].kind = "other" -> Jsoned(Said(parts[i]))
                      [] OTHER -> <<>>]
<1>1. ASSUME NEW i \in DOMAIN parts PROVE ss[i] \in Seq(TextPieces)
  <2>1. parts[i] \in Parts
    OBVIOUS
  <2>2. Said(parts[i]) \in Seq(TextPieces)
    BY <2>1, PartType
  <2>3. Jsoned(Said(parts[i])) \in Seq(TextPieces) /\ <<>> \in Seq(TextPieces)
    BY <2>2, JsonedType
  <2> QED BY <2>2, <2>3
<1>2. ss \in [DOMAIN parts -> Seq(TextPieces)]
  BY <1>1
<1>3. VisibleParts(parts) = FlattenSeq(ss)
  BY DEF VisibleParts
<1> HIDE DEF ss
<1> QED BY <1>2, <1>3, MapInSeq, FlattenInSeq

LEMMA AnthropicResultType ==
  ASSUME NEW p \in Parts PROVE AnthropicResult(p) \in CanonicalMessages
<1> DEFINE by == IF p.by = "data" THEN p.by ELSE "none"
           image == IF p.by = "none" THEN <<>> ELSE <<[tag |-> p.tag, by |-> by]>>
           words == IF image # <<>> THEN Jsoned(Plain(p.tag)) ELSE Said(p)
           filled == IF words = <<>> THEN Filler ELSE words
<1>1. /\ p.id \in Nat /\ Said(p) \in Seq(TextPieces) /\ Image(p) \in ImageData
      /\ Jsoned(Plain(p.tag)) \in Seq(TextPieces)
  BY PartType
<1>2. image \in Seq(ImageData)
  <2>1. by \in STRING \cup {"none"} /\ p.tag \in Nat
    BY PartType
  <2> HIDE DEF by
  <2>2. [tag |-> p.tag, by |-> by] \in ImageData
    BY <2>1 DEF ImageData
  <2> QED BY <2>2
<1> HIDE DEF image
<1>3. words \in Seq(TextPieces)
  BY <1>1
<1> HIDE DEF words
<1>4. filled \in Seq(TextPieces)
  <2>1. 0 \in Nat
    OBVIOUS
  <2> QED BY <1>3, <2>1, PlainType DEF Filler
<1> HIDE DEF filled
<1>5. <<Block("result", p.id, filled, image)>> \in Seq(Blocks)
  BY <1>1, <1>2, <1>4, OneBlock
<1>6. "tool" \in Roles /\ <<>> \in Seq(ToolCalls) /\ FALSE \in BOOLEAN
  BY DEF Roles
<1>7. Message("tool", <<Block("result", p.id, filled, image)>>, <<>>, p.id, FALSE)
        \in CanonicalMessages
  BY <1>1, <1>5, <1>6, MessageType
<1> QED
  BY <1>7 DEF AnthropicResult, ResultBlock, filled, words, image, by

LEMMA ImagesOrResultsType ==
  ASSUME NEW parts \in Seq(Parts) PROVE ImagesOrResults(parts) \in Seq(CanonicalMessages)
<1> DEFINE rs == PartsOf(parts, "result")
           is == PartsOf(parts, "image")
           rr == [i \in DOMAIN rs |-> IF rs[i].id # NoId THEN <<rs[i]>> ELSE <<>>]
           ii == [i \in DOMAIN is |-> IF is[i].by # "url" THEN <<is[i]>> ELSE <<>>]
           results == FlattenSeq(rr)
           images == FlattenSeq(ii)
           told == [i \in DOMAIN results |-> AnthropicResult(results[i])]
           pictures == [i \in DOMAIN images |-> ImageBlock(Image(images[i]))]
           whole == <<Message("user", pictures, <<>>, NoId, FALSE)>>
<1>1. ImagesOrResults(parts) = IF results # <<>> \/ images = <<>> THEN told ELSE whole
  BY DEF ImagesOrResults, Only
<1>2. rs \in Seq(Parts) /\ is \in Seq(Parts)
  BY PartsOfType
<1> HIDE DEF rs, is
<1>3. rr \in [DOMAIN rs -> Seq(Parts)] /\ ii \in [DOMAIN is -> Seq(Parts)]
  BY <1>2
<1> HIDE DEF rr, ii
<1>4. results \in Seq(Parts) /\ images \in Seq(Parts)
  BY <1>2, <1>3, MapInSeq, FlattenInSeq
<1> HIDE DEF results, images
<1>5. told \in [DOMAIN results -> CanonicalMessages]
  <2>1. \A i \in DOMAIN results : results[i] \in Parts
    BY <1>4
  <2> QED BY <2>1, AnthropicResultType
<1>6. pictures \in [DOMAIN images -> Blocks]
  <2>1. ASSUME NEW i \in DOMAIN images PROVE ImageBlock(Image(images[i])) \in Blocks
    <3>1. images[i] \in Parts
      BY <1>4
    <3>2. <<Image(images[i])>> \in Seq(ImageData) /\ <<>> \in Seq(TextPieces) /\ 0 \in Nat
      BY <3>1, PartType
    <3>3. Block("image", 0, <<>>, <<Image(images[i])>>) \in Blocks
      BY <3>2, BlockType
    <3> QED BY <3>3 DEF ImageBlock, NoId
  <2> QED BY <2>1
<1> HIDE DEF told, pictures
<1>7. told \in Seq(CanonicalMessages) /\ pictures \in Seq(Blocks)
  BY <1>4, <1>5, <1>6, MapInSeq
<1>8. whole \in Seq(CanonicalMessages)
  <2>1. "user" \in Roles /\ <<>> \in Seq(ToolCalls) /\ FALSE \in BOOLEAN /\ NoId \in Nat
    BY DEF Roles, NoId
  <2> QED BY <1>7, <2>1, OneMessage
<1> HIDE DEF whole
<1> QED
  BY <1>1, <1>7, <1>8

LEMMA AnthropicMessageType ==
  ASSUME NEW item \in TurnItems PROVE AnthropicMessage(item) \in Seq(CanonicalMessages)
<1> DEFINE words == VisibleParts(item.parts)
           ts == PartsOf(item.parts, "thinking")
           cs == PartsOf(item.parts, "call")
           tt == [i \in DOMAIN ts |-> IF ts[i].tag # 0 THEN <<ts[i]>> ELSE <<>>]
           cc == [i \in DOMAIN cs |-> IF cs[i].named THEN <<cs[i]>> ELSE <<>>]
           thoughts == FlattenSeq(tt)
           uses == FlattenSeq(cc)
           blocks == [i \in DOMAIN thoughts |-> ThinkingBlock(Plain(thoughts[i].tag))]
           content == IF words = <<>> THEN <<>> ELSE Str(words) \o blocks
           calls == [i \in DOMAIN uses |-> Call(uses[i])]
           M == Seq(CanonicalMessages)
           spoken == <<Message("assistant", content, calls, NoId, thoughts # <<>>)>>
           told == <<Message("user", content, <<>>, NoId, thoughts # <<>>)>>
           first == ImagesOrResults(item.parts)
<1>1. AnthropicMessage(item) =
        IF item.role = "assistant"
        THEN IF words = <<>> /\ uses = <<>> /\ thoughts = <<>> THEN <<>> ELSE spoken
        ELSE first \o (IF words = <<>> THEN <<>> ELSE told)
  BY DEF AnthropicMessage, Only
<1>0. item.parts \in Seq(Parts)
  BY DEF TurnItems
<1>2. /\ words \in Seq(TextPieces) /\ ts \in Seq(Parts) /\ cs \in Seq(Parts)
      /\ first \in M
  BY <1>0, VisiblePartsType, PartsOfType, ImagesOrResultsType
<1> HIDE DEF words, ts, cs, first
<1>3. tt \in [DOMAIN ts -> Seq(Parts)] /\ cc \in [DOMAIN cs -> Seq(Parts)]
  BY <1>2
<1> HIDE DEF tt, cc
<1>4. thoughts \in Seq(Parts) /\ uses \in Seq(Parts)
  BY <1>2, <1>3, MapInSeq, FlattenInSeq
<1> HIDE DEF thoughts, uses
<1>5. blocks \in [DOMAIN thoughts -> Blocks]
  <2>1. ASSUME NEW i \in DOMAIN thoughts PROVE ThinkingBlock(Plain(thoughts[i].tag)) \in Blocks
    <3>1. thoughts[i] \in Parts
      BY <1>4
    <3>2. Plain(thoughts[i].tag) \in Seq(TextPieces) /\ <<>> \in Seq(ImageData) /\ 0 \in Nat
      BY <3>1, PartType
    <3>3. Block("thinking", 0, Plain(thoughts[i].tag), <<>>) \in Blocks
      BY <3>2, BlockType
    <3> QED BY <3>3 DEF ThinkingBlock, NoId
  <2> QED BY <2>1
<1>6. calls \in [DOMAIN uses -> ToolCalls]
  <2>1. ASSUME NEW i \in DOMAIN uses PROVE Call(uses[i]) \in ToolCalls
    <3>1. uses[i] \in Parts
      BY <1>4
    <3>2. uses[i].id \in Nat /\ uses[i].tag \in Nat /\ uses[i].named \in BOOLEAN
      BY <3>1, PartType
    <3> QED BY <3>2, CallType
  <2> QED BY <2>1
<1> HIDE DEF blocks, calls
<1>7. blocks \in Seq(Blocks) /\ calls \in Seq(ToolCalls)
  BY <1>4, <1>5, <1>6, MapInSeq
<1>8. content \in Seq(Blocks)
  <2>1. Str(words) \in Seq(Blocks) /\ <<>> \in Seq(Blocks)
    BY <1>2, StrType
  <2> QED BY <1>7, <2>1
<1> HIDE DEF content
<1>9. spoken \in M /\ told \in M /\ <<>> \in M
  <2>1. /\ {"user", "assistant"} \subseteq Roles /\ <<>> \in Seq(ToolCalls)
        /\ (thoughts # <<>>) \in BOOLEAN /\ NoId \in Nat
    BY DEF Roles, NoId
  <2> DEFINE thinks == thoughts # <<>>
  <2>2. thinks \in BOOLEAN
    OBVIOUS
  <2>3. spoken = <<Message("assistant", content, calls, NoId, thinks)>>
        /\ told = <<Message("user", content, <<>>, NoId, thinks)>>
    OBVIOUS
  <2> HIDE DEF thinks, spoken, told
  <2>4. /\ <<Message("assistant", content, calls, NoId, thinks)>> \in M
        /\ <<Message("user", content, <<>>, NoId, thinks)>> \in M
    BY <1>7, <1>8, <2>1, <2>2, OneMessage
  <2> QED BY <2>3, <2>4
<1> HIDE DEF spoken, told
<1> QED
  BY <1>1, <1>2, <1>9

(* The step of MergeConsecutiveMessages. *)
MergeOne(merged, n) ==
  IF merged = <<>> \/ ~Mergeable(Last(merged), n) THEN Append(merged, n)
  ELSE LET m == Last(merged) IN
       Append(Front(merged),
         [m EXCEPT !.content = Str(MergeText(@) \o MergeText(n.content)),
                   !.calls = @ \o n.calls,
                   !.thinking = @ \/ n.thinking])

Merging == INSTANCE FoldFacts WITH Op <- MergeOne

(* Merging drops no type; it comes before the tool history is sanitized, so *)
(* pairs are not its concern.                                               *)
LEMMA MergedType ==
  ASSUME NEW ms \in Seq(CanonicalMessages)
  PROVE  MergeConsecutiveMessages(ms) \in Seq(CanonicalMessages)
<1>1. ASSUME NEW m \in CanonicalMessages, NEW n \in CanonicalMessages
      PROVE  [m EXCEPT !.content = Str(MergeText(@) \o MergeText(n.content)),
                       !.calls = @ \o n.calls,
                       !.thinking = @ \/ n.thinking] \in CanonicalMessages
  <2> DEFINE content == Str(MergeText(m.content) \o MergeText(n.content))
             calls == m.calls \o n.calls
             thinking == m.thinking \/ n.thinking
  <2>1. /\ m.content \in Seq(Blocks) /\ n.content \in Seq(Blocks)
        /\ m.calls \in Seq(ToolCalls) /\ n.calls \in Seq(ToolCalls)
        /\ m.thinking \in BOOLEAN /\ n.thinking \in BOOLEAN
    BY DEF CanonicalMessages
  <2>2. MergeText(m.content) \in Seq(TextPieces) /\ MergeText(n.content) \in Seq(TextPieces)
    BY <2>1, ContentTextType, MarshalledType DEF MergeText
  <2>3. content \in Seq(Blocks)
    <3>1. MergeText(m.content) \o MergeText(n.content) \in Seq(TextPieces)
      BY <2>2
    <3> QED BY <3>1, StrType
  <2>4. calls \in Seq(ToolCalls) /\ thinking \in BOOLEAN
    BY <2>1
  <2> HIDE DEF content, calls, thinking
  <2>5. [m EXCEPT !.content = content, !.calls = calls, !.thinking = thinking]
          \in CanonicalMessages
    BY <2>3, <2>4 DEF CanonicalMessages
  <2> QED BY <2>5 DEF content, calls, thinking
<1>2. ASSUME NEW merged \in Seq(CanonicalMessages), NEW n \in CanonicalMessages
      PROVE  MergeOne(merged, n) \in Seq(CanonicalMessages)
  <2>1. CASE merged = <<>> \/ ~Mergeable(Last(merged), n)
    BY <2>1 DEF MergeOne
  <2>2. CASE ~(merged = <<>> \/ ~Mergeable(Last(merged), n))
    <3> DEFINE m == Last(merged)
               joined == [m EXCEPT !.content = Str(MergeText(@) \o MergeText(n.content)),
                                   !.calls = @ \o n.calls,
                                   !.thinking = @ \/ n.thinking]
    <3>1. m \in CanonicalMessages /\ Front(merged) \in Seq(CanonicalMessages)
      BY <2>2, FrontLast
    <3>2. MergeOne(merged, n) = Append(Front(merged), joined)
      BY <2>2 DEF MergeOne
    <3> HIDE DEF m
    <3>3. joined \in CanonicalMessages
      BY <1>1, <3>1
    <3> HIDE DEF joined
    <3> QED BY <3>1, <3>2, <3>3
  <2> QED BY <2>1, <2>2
<1>3. Merging!Fold(<<>>, ms) \in Seq(CanonicalMessages)
  <2>1. <<>> \in Seq(CanonicalMessages)
    OBVIOUS
  <2> QED BY <1>2, <2>1, Merging!FoldStaysIn
<1>4. MergeConsecutiveMessages(ms) = Merging!Fold(<<>>, ms)
  BY DEF MergeConsecutiveMessages, FoldLeft, MapThenFoldSet, Merging!Fold, Merging!Largest, Max, MergeOne
<1> QED BY <1>3, <1>4

LEMMA SystemMessage ==
  ASSUME NEW tag \in Nat
  PROVE  /\ <<Message("system", Str(Plain(tag)), <<>>, NoId, FALSE)>> \in Seq(CanonicalMessages)
         /\ <<Message("user", Str(Plain(tag)), <<>>, NoId, FALSE)>> \in Seq(CanonicalMessages)
         /\ <<Message("user", <<>>, <<>>, NoId, FALSE)>> \in Seq(CanonicalMessages)
<1>1. /\ {"system", "user"} \subseteq Roles /\ <<>> \in Seq(ToolCalls) /\ NoId \in Nat
      /\ <<>> \in Seq(Blocks) /\ FALSE \in BOOLEAN
  BY DEF Roles, NoId
<1>2. Str(Plain(tag)) \in Seq(Blocks)
  BY PlainType, StrType
<1> QED BY <1>1, <1>2, OneMessage

(* Every route hands over a paired history: sanitizeToolHistory is the last *)
(* thing each of the four does, or no message has calls or results.         *)
LEMMA ToIRType ==
  ASSUME NEW protocol \in {"chat", "responses", "completions", "messages"},
         NEW body \in Bodies[protocol]
  PROVE  /\ ToIR(protocol, body.system, body.items) \in Seq(CanonicalMessages)
         /\ Paired(ToIR(protocol, body.system, body.items))
<1> DEFINE M == Seq(CanonicalMessages)
           items == body.items
<1>1. CASE protocol = "chat"
  <2> DEFINE ms == [i \in DOMAIN items |-> ChatMessage(items[i])]
  <2>1. items \in Seq(ChatItems)
    BY <1>1, BodiesAssumption DEF BodiesOf
  <2>2. ms \in [DOMAIN items -> CanonicalMessages]
    <3> HIDE DEF items
    <3>1. \A i \in DOMAIN items : items[i] \in ChatItems
      BY <2>1
    <3> QED BY <3>1, ChatMessageType
  <2>3. ToIR(protocol, body.system, body.items) = SanitizeToolHistory(ms, FALSE)
    BY <1>1 DEF ToIR, ChatToIR
  <2> HIDE DEF ms, items
  <2>4. ms \in M
    BY <2>1, <2>2, MapInSeq
  <2> QED BY <2>3, <2>4, SanitizedHistory
<1>2. CASE protocol = "responses"
  <2> DEFINE ss == [i \in DOMAIN items |-> ResponsesInputItem(items[i])]
             told == FlattenSeq(ss)
             all == IF body.system = 0 THEN told
                    ELSE <<Message("system", Str(Plain(body.system)), <<>>, NoId, FALSE)>>
                            \o told
             some == IF all = <<>> THEN <<Message("user", <<>>, <<>>, NoId, FALSE)>> ELSE all
  <2>1. items \in Seq(InputItems) /\ body.system \in Nat
    BY <1>2, BodiesAssumption DEF BodiesOf
  <2>2. ss \in [DOMAIN items -> M]
    <3> HIDE DEF items
    <3>1. \A i \in DOMAIN items : items[i] \in InputItems
      BY <2>1
    <3> QED BY <3>1, InputItemType
  <2>3. ToIR(protocol, body.system, body.items) = SanitizeToolHistory(some, FALSE)
    BY <1>2 DEF ToIR, ResponsesToIR
  <2> HIDE DEF ss, items
  <2>4. told \in M
    <3> HIDE DEF M
    <3>1. ss \in Seq(M)
      BY <2>1, <2>2, MapInSeq
    <3> QED BY <3>1, FlattenInSeq DEF M
  <2> HIDE DEF told
  <2>5. some \in M
    <3> DEFINE sys == <<Message("system", Str(Plain(body.system)), <<>>, NoId, FALSE)>>
               nobody == <<Message("user", <<>>, <<>>, NoId, FALSE)>>
    <3>1. sys \in M /\ nobody \in M /\ <<>> \in M
      <4>1. <<>> \in M
        OBVIOUS
      <4>2. PICK tag \in Nat : tag = body.system
        BY <2>1
      <4> HIDE DEF M
      <4> QED BY <4>1, <4>2, SystemMessage DEF M
    <3>2. some = IF (IF body.system = 0 THEN told ELSE sys \o told) = <<>> THEN nobody
               ELSE IF body.system = 0 THEN told ELSE sys \o told
      OBVIOUS
    <3> HIDE DEF sys, nobody, some
    <3>3. sys \o told \in M
      BY <2>4, <3>1
    <3> QED BY <2>4, <3>1, <3>2, <3>3
  <2> HIDE DEF some
  <2> QED BY <2>3, <2>5, SanitizedHistory
<1>3. CASE protocol = "completions"
  <2>1. body.system \in Nat
    BY <1>3, BodiesAssumption DEF BodiesOf
  <2> DEFINE words == IF body.system = 0 THEN <<>> ELSE Plain(body.system)
             one == Message("user", Str(words), <<>>, NoId, FALSE)
  <2>2. words \in Seq(TextPieces)
    BY <2>1, PlainType
  <2>3. ToIR(protocol, body.system, body.items) = <<one>>
    BY <1>3 DEF ToIR, CompletionsToIR
  <2> HIDE DEF words
  <2>4. "user" \in Roles /\ <<>> \in Seq(ToolCalls) /\ NoId \in Nat /\ FALSE \in BOOLEAN
    BY DEF Roles, NoId
  <2>5. one \in CanonicalMessages
    BY <2>2, <2>4, StrType, MessageType
  <2>6. one.role = "user"
    BY DEF Message
  <2> HIDE DEF one
  <2>7. <<one>> \in M /\ Paired(<<one>>)
    BY <2>5, <2>6 DEF Paired
  <2> QED BY <2>3, <2>7
<1>4. CASE protocol = "messages"
  <2> DEFINE ss == [i \in DOMAIN items |-> AnthropicMessage(items[i])]
             told == FlattenSeq(ss)
             first == IF body.system = 0 THEN <<>>
                      ELSE <<Message("system", Str(Plain(body.system)), <<>>, NoId, FALSE)>>
  <2>1. items \in Seq(TurnItems) /\ body.system \in Nat
    BY <1>4, BodiesAssumption DEF BodiesOf
  <2>2. ss \in [DOMAIN items -> M]
    <3> HIDE DEF items
    <3>1. \A i \in DOMAIN items : items[i] \in TurnItems
      BY <2>1
    <3> QED BY <3>1, AnthropicMessageType
  <2>3. ToIR(protocol, body.system, body.items)
          = SanitizeToolHistory(MergeConsecutiveMessages(first \o told), TRUE)
    BY <1>4 DEF ToIR, MessagesToIR
  <2> HIDE DEF ss, items
  <2>4. told \in M
    <3> HIDE DEF M
    <3>1. ss \in Seq(M)
      BY <2>1, <2>2, MapInSeq
    <3> QED BY <3>1, FlattenInSeq DEF M
  <2> HIDE DEF told
  <2>5. first \in M
    <3> DEFINE sys == <<Message("system", Str(Plain(body.system)), <<>>, NoId, FALSE)>>
               nobody == <<Message("user", <<>>, <<>>, NoId, FALSE)>>
    <3>1. sys \in M /\ nobody \in M /\ <<>> \in M
      <4>1. <<>> \in M
        OBVIOUS
      <4>2. PICK tag \in Nat : tag = body.system
        BY <2>1
      <4> HIDE DEF M
      <4> QED BY <4>1, <4>2, SystemMessage DEF M
    <3>2. first = IF body.system = 0 THEN <<>> ELSE sys
      OBVIOUS
    <3> HIDE DEF sys, nobody, first
    <3>3. sys \o told \in M
      BY <2>4, <3>1
    <3> QED BY <2>4, <3>1, <3>2, <3>3
  <2> HIDE DEF first
  <2>6. first \o told \in M
    BY <2>4, <2>5
  <2> QED BY <2>3, <2>6, MergedType, SanitizedHistory
<1> QED
  BY <1>1, <1>2, <1>3, <1>4

-----------------------------------------------------------------------------
(* The input of Codex: what it takes from a paired history is in order. *)

(* The items of the input. *)
CodexItems ==
  [type : {"message", "function_call", "function_call_output"},
   who : {"developer", "assistant", "user", "tool"}, text : Seq(TextPieces), id : Nat]

LEMMA SaidAsType ==
  ASSUME NEW m \in CanonicalMessages, NEW who \in {"developer", "assistant", "user"}
  PROVE  /\ SaidAs(who, m) \in Seq(CodexItems)
         /\ \A k \in DOMAIN SaidAs(who, m) : SaidAs(who, m)[k].type = "message"
<1> DEFINE words == VisibleText(m.content)
           item == Item("message", who, words, NoId)
<1>1. words \in Seq(TextPieces)
  BY VisibleTextType DEF CanonicalMessages
<1>2. SaidAs(who, m) = IF words = <<>> THEN <<>> ELSE <<item>>
  BY DEF SaidAs
<1> HIDE DEF words
<1>3. item \in CodexItems /\ item.type = "message"
  BY <1>1 DEF Item, CodexItems, NoId
<1> HIDE DEF item
<1>4. <<item>> \in Seq(CodexItems) /\ \A k \in DOMAIN <<item>> : <<item>>[k] = item
  BY <1>3
<1>5. <<>> \in Seq(CodexItems) /\ DOMAIN <<>> = {}
  OBVIOUS
<1> QED BY <1>2, <1>3, <1>4, <1>5

LEMMA FunctionCallsType ==
  ASSUME NEW calls \in Seq(ToolCalls)
  PROVE  /\ FunctionCalls(calls) \in Seq(CodexItems)
         /\ \A k \in DOMAIN FunctionCalls(calls) : FunctionCalls(calls)[k].type = "function_call"
         /\ \A c \in DOMAIN calls : calls[c].named =>
              \E k \in DOMAIN FunctionCalls(calls) : FunctionCalls(calls)[k].id = calls[c].id
<1> DEFINE cc == [i \in DOMAIN calls |-> IF calls[i].named THEN <<calls[i]>> ELSE <<>>]
           named == FlattenSeq(cc)
           items == [i \in DOMAIN named |-> Item("function_call", "assistant", <<>>, named[i].id)]
<1>1. FunctionCalls(calls) = items
  BY DEF FunctionCalls, Only
<1>2. cc \in [DOMAIN calls -> Seq(ToolCalls)]
  OBVIOUS
<1>3. \A c \in DOMAIN calls : calls[c].named => cc[c] = <<calls[c]>>
  OBVIOUS
<1> HIDE DEF cc
<1>4. cc \in Seq(Seq(ToolCalls)) /\ DOMAIN cc = DOMAIN calls
  BY <1>2, MapInSeq
<1>5. named \in Seq(ToolCalls)
  BY <1>4, FlattenInSeq
<1>6. ASSUME NEW c \in DOMAIN calls, calls[c].named
      PROVE  \E k \in DOMAIN named : named[k] = calls[c]
  <2>1. 1 \in DOMAIN cc[c] /\ cc[c][1] = calls[c] /\ c \in DOMAIN cc
    BY <1>3, <1>4, <1>6
  <2> QED BY <1>4, <2>1, FlattenHas
<1> HIDE DEF named
<1>7. items \in [DOMAIN named -> CodexItems]
  <2>1. \A i \in DOMAIN named : named[i].id \in Nat
    <3>1. \A c \in ToolCalls : c.id \in Nat
      BY DEF ToolCalls
    <3> QED BY <1>5, <3>1
  <2>2. <<>> \in Seq(TextPieces)
    OBVIOUS
  <2> QED BY <2>1, <2>2 DEF Item, CodexItems
<1>8. \A k \in DOMAIN items : items[k].type = "function_call" /\ items[k].id = named[k].id
  BY DEF Item
<1>9. DOMAIN items = DOMAIN named
  OBVIOUS
<1> HIDE DEF items
<1>10. items \in Seq(CodexItems)
  BY <1>5, <1>7, MapInSeq
<1> QED
  BY <1>1, <1>6, <1>8, <1>9, <1>10

(* Of one message: its only output is the first item of a tool message; all *)
(* the named calls of an assistant are among its items.                     *)
LEMMA ItemsOfMessage ==
  ASSUME NEW m \in CanonicalMessages
  PROVE  /\ CodexMessageItems(m) \in Seq(CodexItems)
         /\ \A k \in DOMAIN CodexMessageItems(m) :
              CodexMessageItems(m)[k].type = "function_call_output" =>
                m.role = "tool" /\ k = 1 /\ CodexMessageItems(m)[k].id = m.answers
         /\ m.role = "assistant" => \A c \in DOMAIN m.calls : m.calls[c].named =>
              \E k \in DOMAIN CodexMessageItems(m) :
                /\ CodexMessageItems(m)[k].type = "function_call"
                /\ CodexMessageItems(m)[k].id = m.calls[c].id
<1> DEFINE x == CodexMessageItems(m)
<1>1. m.role \in Roles /\ m.calls \in Seq(ToolCalls) /\ m.answers \in Nat /\ m.content \in Seq(Blocks)
  BY DEF CanonicalMessages
<1>2. CASE m.role \in {"system", "developer"}
  <2>1. x = SaidAs("developer", m)
    BY <1>2 DEF CodexMessageItems
  <2> HIDE DEF x
  <2>2. x \in Seq(CodexItems) /\ \A k \in DOMAIN x : x[k].type = "message"
    BY <2>1, SaidAsType
  <2> QED BY <1>2, <2>2 DEF x
<1>3. CASE m.role = "user"
  <2>1. x = SaidAs("user", m)
    BY <1>3 DEF CodexMessageItems
  <2> HIDE DEF x
  <2>2. x \in Seq(CodexItems) /\ \A k \in DOMAIN x : x[k].type = "message"
    BY <2>1, SaidAsType
  <2> QED BY <1>3, <2>2 DEF x
<1>4. CASE m.role = "assistant"
  <2> DEFINE a == SaidAs("assistant", m)
             b == FunctionCalls(m.calls)
  <2>1. x = a \o b
    BY <1>4 DEF CodexMessageItems
  <2>2. a \in Seq(CodexItems) /\ \A k \in DOMAIN a : a[k].type = "message"
    BY SaidAsType
  <2>3. /\ b \in Seq(CodexItems) /\ \A k \in DOMAIN b : b[k].type = "function_call"
        /\ \A c \in DOMAIN m.calls : m.calls[c].named => \E k \in DOMAIN b : b[k].id = m.calls[c].id
    BY <1>1, FunctionCallsType
  <2> HIDE DEF x, a, b
  <2>4. /\ x \in Seq(CodexItems)
        /\ \A i \in DOMAIN a : i \in DOMAIN x /\ x[i] = a[i]
        /\ \A i \in DOMAIN b : Len(a) + i \in DOMAIN x /\ x[Len(a) + i] = b[i]
        /\ \A i \in DOMAIN x : i \in DOMAIN a \/ (i - Len(a) \in DOMAIN b /\ x[i] = b[i - Len(a)])
    BY <2>1, <2>2, <2>3, Joined
  <2>5. \A k \in DOMAIN x : x[k].type # "function_call_output"
    BY <2>2, <2>3, <2>4
  <2>6. ASSUME NEW c \in DOMAIN m.calls, m.calls[c].named
        PROVE  \E k \in DOMAIN x : x[k].type = "function_call" /\ x[k].id = m.calls[c].id
    <3>1. PICK k \in DOMAIN b : b[k].id = m.calls[c].id
      BY <2>3, <2>6
    <3> QED BY <2>3, <2>4, <3>1
  <2> QED BY <2>4, <2>5, <2>6 DEF x
<1>5. CASE m.role = "tool"
  <2> DEFINE item == Item("function_call_output", "tool", VisibleText(m.content), m.answers)
  <2>1. x = IF m.answers = NoId THEN <<>> ELSE <<item>>
    BY <1>5 DEF CodexMessageItems
  <2>2. item \in CodexItems
    <3>1. VisibleText(m.content) \in Seq(TextPieces)
      BY <1>1, VisibleTextType
    <3> QED BY <1>1, <3>1 DEF Item, CodexItems
  <2>3. item.id = m.answers
    BY DEF Item
  <2> HIDE DEF x, item
  <2>4. x \in Seq(CodexItems) /\ \A k \in DOMAIN x : k = 1 /\ x[k] = item
    BY <2>1, <2>2
  <2> QED BY <1>5, <2>3, <2>4 DEF x
<1> QED
  BY <1>1, <1>2, <1>3, <1>4, <1>5 DEF Roles

(* What CallsPrecedeOutputs says, of any input. *)
InOrder(items) ==
  \A i \in {k \in DOMAIN items : items[k].type = "function_call_output"} :
    /\ \E j \in 1..(i - 1) : items[j].type = "function_call" /\ items[j].id = items[i].id
    /\ \A j \in 1..(i - 1) :
         items[j].type = "function_call_output" => items[j].id # items[i].id

(* The input made of the first k messages.  It is in order; its outputs are *)
(* the answers of the tool messages among them; it has the calls the        *)
(* assistant made in them, by name.                                         *)
InputOf(ms, k, items) ==
  /\ items \in Seq(CodexItems) /\ InOrder(items)
  /\ \A i \in DOMAIN items : items[i].type = "function_call_output" =>
       \E j \in 1..k : ms[j].role = "tool" /\ items[i].id = ms[j].answers
  /\ \A j \in 1..k : ms[j].role = "assistant" =>
       \A c \in DOMAIN ms[j].calls : ms[j].calls[c].named =>
         \E i \in DOMAIN items : items[i].type = "function_call" /\ items[i].id = ms[j].calls[c].id

(* One message more. *)
LEMMA InputGrows ==
  ASSUME NEW ms \in Seq(CanonicalMessages), Paired(ms),
         NEW k \in Nat, k + 1 \in DOMAIN ms, NEW items, InputOf(ms, k, items)
  PROVE  InputOf(ms, k + 1, items \o CodexMessageItems(ms[k + 1]))
<1> DEFINE m == ms[k + 1]
           x == CodexMessageItems(m)
           all == items \o x
           n == Len(items)
<1>1. m \in CanonicalMessages
  OBVIOUS
<1>2. /\ x \in Seq(CodexItems)
      /\ \A i \in DOMAIN x : x[i].type = "function_call_output" =>
           m.role = "tool" /\ i = 1 /\ x[i].id = m.answers
      /\ m.role = "assistant" => \A c \in DOMAIN m.calls : m.calls[c].named =>
           \E i \in DOMAIN x : x[i].type = "function_call" /\ x[i].id = m.calls[c].id
  BY <1>1, ItemsOfMessage
<1>3. items \in Seq(CodexItems) /\ InOrder(items)
  BY DEF InputOf
<1> HIDE DEF x
<1>4. /\ all \in Seq(CodexItems) /\ n \in Nat /\ DOMAIN items = 1..n
      /\ DOMAIN all = 1..(n + Len(x)) /\ DOMAIN x = 1..Len(x) /\ Len(x) \in Nat
      /\ \A i \in DOMAIN items : i \in DOMAIN all /\ all[i] = items[i]
      /\ \A i \in DOMAIN x : n + i \in DOMAIN all /\ all[n + i] = x[i]
      /\ \A i \in DOMAIN all : i \in DOMAIN items \/ (i - n \in DOMAIN x /\ all[i] = x[i - n])
  BY <1>2, <1>3, Joined
<1>5. /\ \A i \in DOMAIN items : items[i].type = "function_call_output" =>
           \E j \in 1..k : ms[j].role = "tool" /\ items[i].id = ms[j].answers
      /\ \A j \in 1..k : ms[j].role = "assistant" =>
           \A c \in DOMAIN ms[j].calls : ms[j].calls[c].named =>
             \E i \in DOMAIN items :
               items[i].type = "function_call" /\ items[i].id = ms[j].calls[c].id
  BY DEF InputOf
<1>6. 1..(k + 1) = 1..k \cup {k + 1} /\ (k + 1) - 1 = k
  OBVIOUS
<1> HIDE DEF all, n, m
<1>7. ASSUME NEW i \in DOMAIN all, all[i].type = "function_call_output"
      PROVE  \E j \in 1..(k + 1) : ms[j].role = "tool" /\ all[i].id = ms[j].answers
  <2>1. CASE i \in DOMAIN items
    BY <1>4, <1>5, <1>6, <1>7, <2>1
  <2>2. CASE i \notin DOMAIN items
    BY <1>2, <1>4, <1>6, <1>7, <2>2 DEF m
  <2> QED BY <2>1, <2>2
<1>8. ASSUME NEW j \in 1..(k + 1), ms[j].role = "assistant", NEW c \in DOMAIN ms[j].calls,
             ms[j].calls[c].named
      PROVE  \E i \in DOMAIN all : all[i].type = "function_call" /\ all[i].id = ms[j].calls[c].id
  <2>1. CASE j \in 1..k
    <3>1. PICK i \in DOMAIN items :
            items[i].type = "function_call" /\ items[i].id = ms[j].calls[c].id
      BY <1>5, <1>8, <2>1
    <3> QED BY <1>4, <3>1
  <2>2. CASE j = k + 1
    <3>1. PICK i \in DOMAIN x :
            x[i].type = "function_call" /\ x[i].id = ms[j].calls[c].id
      BY <1>2, <1>8, <2>2 DEF m
    <3> QED BY <1>4, <3>1
  <2> QED BY <1>6, <2>1, <2>2
<1>9. ASSUME NEW i \in DOMAIN all, all[i].type = "function_call_output"
      PROVE  /\ \E j \in 1..(i - 1) : all[j].type = "function_call" /\ all[j].id = all[i].id
             /\ \A j \in 1..(i - 1) :
                  all[j].type = "function_call_output" => all[j].id # all[i].id
  <2>1. CASE i \in DOMAIN items
    <3>1. \A j \in 1..(i - 1) : j \in DOMAIN items /\ all[j] = items[j]
      BY <1>4, <2>1
    <3>2. all[i] = items[i]
      BY <1>4, <2>1
    <3> QED BY <1>3, <1>9, <2>1, <3>1, <3>2 DEF InOrder
  <2>2. CASE i \notin DOMAIN items
    <3>1. i - n \in DOMAIN x /\ all[i] = x[i - n]
      BY <1>4, <2>2
    <3>2. m.role = "tool" /\ i - n = 1 /\ all[i].id = m.answers
      BY <1>2, <1>9, <3>1
    <3>3. 1..(i - 1) = DOMAIN items
      BY <1>4, <3>2
    <3>4. /\ \E j \in 1..k : /\ ms[j].role = "assistant"
                             /\ \E c \in DOMAIN ms[j].calls :
                                  ms[j].calls[c].named /\ ms[j].calls[c].id = m.answers
          /\ \A j \in 1..k : ms[j].role = "tool" => ms[j].answers # m.answers
      BY <1>6, <3>2 DEF Paired, m
    <3>5. \E j \in DOMAIN items : items[j].type = "function_call" /\ items[j].id = m.answers
      BY <1>5, <3>4
    <3>6. \A j \in DOMAIN items :
            items[j].type = "function_call_output" => items[j].id # m.answers
      BY <1>5, <3>4
    <3> QED BY <1>4, <3>2, <3>3, <3>5, <3>6
  <2> QED BY <2>1, <2>2
<1>10. InOrder(all)
  BY <1>9 DEF InOrder
<1>11. InputOf(ms, k + 1, all)
  BY <1>4, <1>7, <1>8, <1>10 DEF InputOf
<1> QED
  BY <1>11 DEF all, x, m

(* The order of the input of Codex, from nothing but that the history is    *)
(* paired.                                                                  *)
LEMMA InputInOrder ==
  ASSUME NEW ms \in Seq(CanonicalMessages), Paired(ms)
  PROVE  InOrder(BuildRequestPayload(ms))
<1> DEFINE ss == [i \in DOMAIN ms |-> CodexMessageItems(ms[i])]
           n == Len(ms)
<1>1. ss \in [DOMAIN ms -> Seq(CodexItems)]
  <2>1. \A i \in DOMAIN ms : ms[i] \in CanonicalMessages
    OBVIOUS
  <2> QED BY <2>1, ItemsOfMessage
<1>2. \A i \in DOMAIN ms : ss[i] = CodexMessageItems(ms[i])
  OBVIOUS
<1>3. BuildRequestPayload(ms) = FlattenSeq(ss)
  BY DEF BuildRequestPayload
<1> HIDE DEF ss
<1>4. ss \in Seq(Seq(CodexItems)) /\ Len(ss) = n /\ n \in Nat /\ DOMAIN ms = 1..n
  BY <1>1, MapInSeq
<1>5. PICK g : /\ g[0] = <<>>
               /\ \A i \in 1..n : g[i] = g[i - 1] \o ss[i]
               /\ g[n] = FlattenSeq(ss)
  BY <1>4, FlattenChain
<1> DEFINE M == {k \in Nat : k <= n => InputOf(ms, k, g[k])}
<1>6. 0 \in M
  <2>1. <<>> \in Seq(CodexItems) /\ DOMAIN <<>> = {} /\ 1..0 = {}
    OBVIOUS
  <2>2. InputOf(ms, 0, <<>>)
    BY <2>1 DEF InputOf, InOrder
  <2> QED BY <1>5, <2>2
<1>7. ASSUME NEW k \in Nat, k \in M PROVE k + 1 \in M
  <2> SUFFICES ASSUME k + 1 <= n PROVE InputOf(ms, k + 1, g[k + 1])
    OBVIOUS
  <2>1. k + 1 \in DOMAIN ms /\ (k + 1) - 1 = k /\ k <= n
    BY <1>4
  <2>2. g[k + 1] = g[k] \o CodexMessageItems(ms[k + 1])
    BY <1>2, <1>4, <1>5, <2>1
  <2>3. InputOf(ms, k, g[k])
    BY <1>7, <2>1
  <2> QED BY <2>1, <2>2, <2>3, InputGrows
<1>8. n \in M
  <2>1. \A k \in Nat : k \in M => k + 1 \in M
    BY <1>7
  <2> HIDE DEF M
  <2>2. Nat \subseteq M
    BY <1>6, <2>1, Induction
  <2> QED BY <1>4, <2>2
<1>9. InputOf(ms, n, g[n])
  BY <1>4, <1>8
<1> QED BY <1>3, <1>5, <1>9 DEF InputOf

-----------------------------------------------------------------------------
(* Kiro's payload: slices.  A turn holds windows on arrays that appending   *)
(* may add to or replace, but never shortens.                               *)

(* What the arrays hold. *)
ToolResults == [id : Nat, text : Seq(TextPieces)]

Held == ImageData \cup ToolResults \cup {"unset"}

Heaps == Seq(Seq(Held))

Slices == [at : Nat, len : Nat]

(* A slice is a window on an array of the heap. *)
Within(heap, s) ==
  /\ s \in Slices /\ s.at \in DOMAIN heap \cup {0}
  /\ s.len <= (IF s.at = 0 THEN 0 ELSE Len(heap[s.at]))

(* What appending does to a heap: arrays are added, the others keep their   *)
(* capacity.                                                                *)
Wider(h1, h2) ==
  /\ h1 \in Heaps /\ h2 \in Heaps /\ Len(h1) <= Len(h2)
  /\ \A i \in DOMAIN h1 : i \in DOMAIN h2 /\ Len(h2[i]) = Len(h1[i])

LEMMA WiderSame == ASSUME NEW h \in Heaps PROVE Wider(h, h)
BY DEF Wider

LEMMA WiderThen ==
  ASSUME NEW h1, NEW h2, NEW h3, Wider(h1, h2), Wider(h2, h3) PROVE Wider(h1, h3)
<1>1. Len(h1) \in Nat /\ Len(h2) \in Nat /\ Len(h3) \in Nat
  BY DEF Wider, Heaps
<1>2. Len(h1) <= Len(h3)
  BY <1>1 DEF Wider
<1> QED BY <1>2 DEF Wider

LEMMA WithinWider ==
  ASSUME NEW h1, NEW h2, NEW s, Within(h1, s), Wider(h1, h2) PROVE Within(h2, s)
BY DEF Within, Wider

LEMMA HeapArray ==
  ASSUME NEW heap \in Heaps, NEW i \in DOMAIN heap
  PROVE  heap[i] \in Seq(Held) /\ Len(heap[i]) \in Nat
BY DEF Heaps

LEMMA NilWithin == ASSUME NEW heap \in Heaps PROVE Within(heap, NilSlice)
BY DEF Within, NilSlice, Slices

LEMMA CellsType ==
  ASSUME NEW heap \in Heaps, NEW s, Within(heap, s)
  PROVE  Cells(heap, s) \in Seq(Held) /\ Len(Cells(heap, s)) = s.len
<1>1. s.len \in Nat /\ s.at \in Nat
  BY DEF Within, Slices
<1>2. CASE s.at = 0
  <2>1. Cells(heap, s) = <<>> /\ s.len = 0
    BY <1>1, <1>2 DEF Cells, Within
  <2> QED BY <2>1
<1>3. CASE s.at # 0
  <2> DEFINE a == heap[s.at]
  <2>1. a \in Seq(Held) /\ Len(a) \in Nat /\ s.len <= Len(a)
    BY <1>3, HeapArray DEF Within
  <2>2. Cells(heap, s) = SubSeq(a, 1, s.len)
    BY <1>3 DEF Cells
  <2> HIDE DEF a
  <2>3. SubSeq(a, 1, s.len) \in Seq(Held) /\ Len(SubSeq(a, 1, s.len)) = s.len
    BY <1>1, <2>1
  <2> QED BY <2>2, <2>3
<1> QED BY <1>2, <1>3

LEMMA HeapGrows ==
  ASSUME NEW heap \in Heaps, NEW a \in Seq(Held)
  PROVE  /\ Wider(heap, Append(heap, a)) /\ Len(heap) \in Nat
         /\ \A n \in 0..Len(a) : Within(Append(heap, a), [at |-> Len(heap) + 1, len |-> n])
         /\ Append(heap, a)[Len(heap) + 1] = a
         /\ \A i \in DOMAIN heap : Append(heap, a)[i] = heap[i]
<1> DEFINE S == Seq(Held)
           h == Append(heap, a)
<1>1. heap \in Seq(S) /\ a \in S
  BY DEF Heaps
<1> HIDE DEF S
<1>2. /\ h \in Seq(S) /\ Len(h) = Len(heap) + 1 /\ Len(heap) \in Nat /\ h[Len(heap) + 1] = a
      /\ DOMAIN heap = 1..Len(heap) /\ DOMAIN h = 1..(Len(heap) + 1)
      /\ \A i \in 1..Len(heap) : h[i] = heap[i]
  BY <1>1
<1>3. h \in Heaps
  BY <1>2 DEF Heaps, S
<1> HIDE DEF h
<1>4. Wider(heap, h)
  BY <1>2, <1>3 DEF Wider
<1>5. ASSUME NEW n \in 0..Len(a) PROVE Within(h, [at |-> Len(heap) + 1, len |-> n])
  <2>1. n \in Nat /\ n <= Len(a)
    <3>1. Len(a) \in Nat
      OBVIOUS
    <3> QED BY <3>1
  <2> QED BY <1>2, <2>1 DEF Within, Slices
<1> QED BY <1>2, <1>4, <1>5 DEF h

(* A new slice has a new array, or none. *)
LEMMA NewSliceMakes ==
  ASSUME NEW heap \in Heaps, NEW xs \in Seq(Held)
  PROVE  LET r == NewSlice(heap, xs)
         IN /\ Wider(heap, r.heap) /\ r.heap \in Heaps /\ Within(r.heap, r.slice)
            /\ r.slice.at \in {0, Len(heap) + 1}
            /\ \A i \in DOMAIN heap : r.heap[i] = heap[i]
<1>1. CASE xs = <<>>
  BY <1>1, WiderSame, NilWithin DEF NewSlice, NilSlice
<1>2. CASE xs # <<>>
  <2> DEFINE h == Append(heap, xs)
             s == [at |-> Len(heap) + 1, len |-> Len(xs)]
  <2>1. Len(xs) \in 0..Len(xs)
    <3>1. Len(xs) \in Nat
      OBVIOUS
    <3> QED BY <3>1
  <2>2. /\ Wider(heap, h) /\ Within(h, s) /\ s.at = Len(heap) + 1
        /\ \A i \in DOMAIN heap : h[i] = heap[i]
    BY <2>1, HeapGrows
  <2>3. NewSlice(heap, xs) = [heap |-> h, slice |-> s]
    BY <1>2 DEF NewSlice
  <2> HIDE DEF h, s
  <2>4. h \in Heaps
    BY <2>2 DEF Wider
  <2> QED BY <2>2, <2>3, <2>4
<1> QED BY <1>1, <1>2

LEMMA NewSliceType ==
  ASSUME NEW heap \in Heaps, NEW xs \in Seq(Held)
  PROVE  LET r == NewSlice(heap, xs)
         IN Wider(heap, r.heap) /\ r.heap \in Heaps /\ Within(r.heap, r.slice)
BY NewSliceMakes

(* A slice reads nothing but its array. *)
LEMMA CellsSame ==
  ASSUME NEW h1, NEW h2, NEW u, u.at # 0 => h2[u.at] = h1[u.at]
  PROVE  Cells(h2, u) = Cells(h1, u)
BY DEF Cells

(* The beginning of a list that goes on. *)
LEMMA BeginsWith ==
  ASSUME NEW S, NEW s \in Seq(S), NEW t \in Seq(S) PROVE SubSeq(s \o t, 1, Len(s)) = s
<1> DEFINE u == s \o t
           v == SubSeq(u, 1, Len(s))
<1>1. /\ u \in Seq(S) /\ Len(u) = Len(s) + Len(t) /\ Len(s) \in Nat /\ Len(t) \in Nat
      /\ DOMAIN s = 1..Len(s) /\ \A i \in 1..Len(s) : u[i] = s[i]
  OBVIOUS
<1> HIDE DEF u
<1>2. Len(v) = Len(s) /\ v \in Seq(S) /\ \A i \in 1..Len(s) : v[i] = u[i]
  BY <1>1, SubSeqIn
<1> HIDE DEF v
<1>3. v = s
  BY <1>1, <1>2
<1> QED BY <1>3 DEF v, u

LEMMA ToSetJoins ==
  ASSUME NEW S, NEW s \in Seq(S), NEW t \in Seq(S) PROVE ToSet(s \o t) = ToSet(s) \cup ToSet(t)
<1> DEFINE u == s \o t
<1>1. /\ DOMAIN u = 1..(Len(s) + Len(t)) /\ Len(s) \in Nat /\ Len(t) \in Nat
      /\ \A i \in DOMAIN s : i \in DOMAIN u /\ u[i] = s[i]
      /\ \A i \in DOMAIN t : Len(s) + i \in DOMAIN u /\ u[Len(s) + i] = t[i]
      /\ \A i \in DOMAIN u : (i \in DOMAIN s /\ u[i] = s[i])
                             \/ (i - Len(s) \in DOMAIN t /\ u[i] = t[i - Len(s)])
  BY Joined
<1> HIDE DEF u
<1>2. ASSUME NEW x \in ToSet(u) PROVE x \in ToSet(s) \cup ToSet(t)
  <2>1. PICK i \in DOMAIN u : x = u[i]
    BY DEF ToSet
  <2> QED BY <1>1, <2>1 DEF ToSet
<1>3. ASSUME NEW x \in ToSet(s) PROVE x \in ToSet(u)
  <2>1. PICK i \in DOMAIN s : x = s[i]
    BY DEF ToSet
  <2>2. i \in DOMAIN u /\ u[i] = x
    BY <1>1, <2>1
  <2> QED BY <2>2 DEF ToSet
<1>4. ASSUME NEW x \in ToSet(t) PROVE x \in ToSet(u)
  <2>1. PICK i \in DOMAIN t : x = t[i]
    BY DEF ToSet
  <2>2. Len(s) + i \in DOMAIN u /\ u[Len(s) + i] = x
    BY <1>1, <2>1
  <2> QED BY <2>2 DEF ToSet
<1>5. ToSet(u) = ToSet(s) \cup ToSet(t)
  BY <1>2, <1>3, <1>4
<1> QED BY <1>5 DEF u

(* append: the cells are added, in the same array or in a new one, and no   *)
(* other array is written to.                                               *)
LEMMA GoAppendAdds ==
  ASSUME NEW heap \in Heaps, NEW s, Within(heap, s), NEW xs \in Seq(Held)
  PROVE  LET r == GoAppend(heap, s, xs)
         IN /\ Wider(heap, r.heap) /\ r.heap \in Heaps /\ Within(r.heap, r.slice)
            /\ Cells(r.heap, r.slice) = Cells(heap, s) \o xs
            /\ r.slice.at \in {s.at, Len(heap) + 1}
            /\ \A i \in DOMAIN heap : i # s.at => r.heap[i] = heap[i]
<1> DEFINE need == s.len + Len(xs)
           room == IF s.at = 0 THEN 0 ELSE Len(heap[s.at])
           grown == IF need > 2 * room THEN need ELSE 2 * room
           kept == Cells(heap, s) \o xs
           blank == [i \in 1..(grown - need) |-> "unset"]
           fresh == kept \o blank
           full == kept \o SubSeq(heap[s.at], need + 1, room)
<1>1. /\ s.len \in Nat /\ s.at \in Nat /\ Len(xs) \in Nat /\ s.len <= room
      /\ s.at # 0 => s.at \in DOMAIN heap
  BY DEF Within, Slices
<1>2. room \in Nat
  BY <1>1, HeapArray
<1>3. /\ need \in Nat /\ grown \in Nat /\ grown >= need
  <2> HIDE DEF room
  <2> QED BY <1>1, <1>2
<1>4. kept \in Seq(Held) /\ Len(kept) = need
  <2> DEFINE old == Cells(heap, s)
  <2>1. old \in Seq(Held) /\ Len(old) = s.len
    BY CellsType
  <2> HIDE DEF old
  <2>2. old \o xs \in Seq(Held) /\ Len(old \o xs) = Len(old) + Len(xs)
    BY <2>1
  <2> QED BY <2>1, <2>2 DEF old
<1>5. CASE xs = <<>>
  <2> DEFINE old == Cells(heap, s)
  <2>1. GoAppend(heap, s, xs) = [heap |-> heap, slice |-> s]
    BY <1>5 DEF GoAppend
  <2>2. old \in Seq(Held)
    BY CellsType
  <2> HIDE DEF old
  <2>3. old \o xs = old
    BY <1>5, <2>2
  <2> QED BY <2>1, <2>3, WiderSame DEF old
<1>6. CASE xs # <<>> /\ need <= room
  <2> DEFINE a == heap[s.at]
             h == [heap EXCEPT ![s.at] = full]
             t == [s EXCEPT !.len = need]
  <2>1. s.at \in DOMAIN heap /\ room = Len(a) /\ a \in Seq(Held)
    <3>1. Len(xs) > 0
      BY <1>6, <1>1
    <3>2. need > 0
      <4> HIDE DEF room
      <4> QED BY <1>1, <3>1
    <3>3. s.at # 0
      BY <1>6, <1>3, <3>2
    <3> QED BY <1>1, <3>3, HeapArray
  <2> HIDE DEF need, room, kept, a
  <2>2. SubSeq(a, need + 1, room) \in Seq(Held) /\ Len(SubSeq(a, need + 1, room)) = room - need
    <3>1. need + 1 \in Nat /\ need + 1 >= 1 /\ room <= Len(a) /\ room \in Nat /\ need + 1 <= room + 1
      BY <1>2, <1>3, <1>6, <2>1
    <3>2. SubSeq(a, need + 1, room) \in Seq(Held)
      BY <2>1, <3>1, SubSeqIn
    <3>3. Len(SubSeq(a, need + 1, room)) = room - need
      BY <2>1, <3>1, <1>3, <1>2
    <3> QED BY <3>2, <3>3
  <2>3. full \in Seq(Held) /\ Len(full) = room /\ SubSeq(full, 1, need) = kept
    <3> DEFINE rest == SubSeq(a, need + 1, room)
    <3>1. full = kept \o rest
      BY DEF a
    <3>2. rest \in Seq(Held) /\ Len(rest) = room - need
      BY <2>2
    <3>3. kept \in Seq(Held) /\ Len(kept) = need
      BY <1>4
    <3> HIDE DEF rest, full
    <3>4. kept \o rest \in Seq(Held) /\ Len(kept \o rest) = Len(kept) + Len(rest)
      BY <3>2, <3>3
    <3>5. need + (room - need) = room
      BY <1>2, <1>3
    <3>6. SubSeq(kept \o rest, 1, Len(kept)) = kept
      BY <3>2, <3>3, BeginsWith
    <3> QED BY <3>1, <3>2, <3>3, <3>4, <3>5, <3>6
  <2> HIDE DEF full
  <2>4. h \in Heaps /\ Len(h) = Len(heap) /\ DOMAIN h = DOMAIN heap
        /\ \A i \in DOMAIN heap : h[i] = IF i = s.at THEN full ELSE heap[i]
    BY <2>1, <2>3 DEF Heaps
  <2>5. Wider(heap, h)
    <3>1. Len(heap) \in Nat
      BY DEF Heaps
    <3> HIDE DEF h
    <3> QED BY <2>1, <2>3, <2>4, <3>1 DEF Wider, a
  <2>6. t \in Slices /\ t.at = s.at /\ t.len = need
    <3>1. s \in Slices
      BY DEF Within
    <3> QED BY <1>3, <3>1 DEF Slices
  <2> HIDE DEF h, t
  <2>7. Within(h, t)
    BY <1>1, <1>6, <2>1, <2>3, <2>4, <2>6 DEF Within
  <2>8. GoAppend(heap, s, xs) = [heap |-> h, slice |-> t]
    BY <1>6 DEF GoAppend, need, room, kept, full, h, t
  <2>9. Cells(h, t) = kept
    <3>1. t.at \in DOMAIN heap /\ t.at # 0
      <4>1. s.at # 0
        BY <2>1 DEF Heaps
      <4> QED BY <2>1, <2>6, <4>1
    <3> QED BY <2>3, <2>4, <2>6, <3>1 DEF Cells
  <2>10. Cells(h, t) = Cells(heap, s) \o xs
    BY <2>9 DEF kept
  <2> QED BY <2>4, <2>5, <2>6, <2>7, <2>8, <2>10
<1>7. CASE xs # <<>> /\ ~(need <= room)
  <2> DEFINE h == Append(heap, fresh)
             t == [at |-> Len(heap) + 1, len |-> need]
  <2>1. blank \in Seq(Held) /\ Len(blank) = grown - need
    <3>1. grown - need \in Nat
      BY <1>3
    <3> HIDE DEF grown, need
    <3>2. blank \in [1..(grown - need) -> Held]
      BY DEF Held
    <3> QED BY <3>1, <3>2, ListOf
  <2> HIDE DEF blank, need, room, grown, kept
  <2>2. fresh \in Seq(Held) /\ Len(fresh) = grown /\ SubSeq(fresh, 1, need) = kept
    BY <1>3, <1>4, <2>1, Joined, BeginsWith
  <2> HIDE DEF fresh
  <2>3. need \in 0..Len(fresh)
    BY <1>3, <2>2
  <2>4. /\ Wider(heap, h) /\ Within(h, t) /\ t.at = Len(heap) + 1 /\ Len(heap) \in Nat
        /\ h[t.at] = fresh /\ t.len = need
        /\ \A i \in DOMAIN heap : h[i] = heap[i]
    BY <2>2, <2>3, HeapGrows
  <2>5. GoAppend(heap, s, xs) = [heap |-> h, slice |-> t]
    BY <1>7 DEF GoAppend, need, room, grown, kept, blank, fresh
  <2> HIDE DEF h, t
  <2>6. h \in Heaps
    BY <2>4 DEF Wider
  <2>7. Cells(h, t) = kept
    BY <2>2, <2>4 DEF Cells
  <2>8. Cells(h, t) = Cells(heap, s) \o xs
    BY <2>7 DEF kept
  <2> QED BY <2>4, <2>5, <2>6, <2>8
<1> QED BY <1>5, <1>6, <1>7

LEMMA GoAppendType ==
  ASSUME NEW heap \in Heaps, NEW s, Within(heap, s), NEW xs \in Seq(Held)
  PROVE  LET r == GoAppend(heap, s, xs)
         IN Wider(heap, r.heap) /\ r.heap \in Heaps /\ Within(r.heap, r.slice)
BY GoAppendAdds

(* A slice emptied keeps its array. *)
LEMMA Emptied ==
  ASSUME NEW heap, NEW s, Within(heap, s)
  PROVE  Within(heap, [s EXCEPT !.len = 0]) /\ [s EXCEPT !.len = 0] \in Slices
<1>1. [s EXCEPT !.len = 0] \in Slices /\ [s EXCEPT !.len = 0].at = s.at /\ [s EXCEPT !.len = 0].len = 0
  BY DEF Within, Slices
<1>2. 0 <= IF s.at = 0 THEN 0 ELSE Len(heap[s.at])
  <2>1. s.len \in Nat /\ s.len <= IF s.at = 0 THEN 0 ELSE Len(heap[s.at])
    BY DEF Within, Slices
  <2> QED OBVIOUS
<1> QED BY <1>1 DEF Within

-----------------------------------------------------------------------------
(* Kiro's payload: the turns made of the messages. *)

LEMMA ContentImagesType ==
  ASSUME NEW content \in Seq(Blocks) PROVE ContentImages(content) \in Seq(ImageData)
<1> DEFINE ss == [i \in DOMAIN content |-> content[i].images]
<1>1. \A i \in DOMAIN content : content[i].images \in Seq(ImageData)
  BY BlockFields
<1>2. ss \in [DOMAIN content -> Seq(ImageData)]
  BY <1>1
<1>3. ContentImages(content) = FlattenSeq(ss)
  BY DEF ContentImages
<1> HIDE DEF ss
<1> QED BY <1>2, <1>3, FlattenedType

LEMMA ExtractedImages ==
  ASSUME NEW m \in CanonicalMessages PROVE ExtractImages(m) \in Seq(Held)
<1> DEFINE s == ContentImages(m.content)
           ss == [i \in DOMAIN s |-> IF s[i].by = "data" THEN <<s[i]>> ELSE <<>>]
<1>1. s \in Seq(ImageData)
  BY ContentImagesType DEF CanonicalMessages
<1>2. ExtractImages(m) = FlattenSeq(ss)
  BY DEF ExtractImages, Only
<1> HIDE DEF s
<1>3. \A i \in DOMAIN s : s[i] \in Held
  BY <1>1 DEF Held
<1>4. ss \in [DOMAIN s -> Seq(Held)]
  BY <1>3
<1> HIDE DEF ss
<1> QED BY <1>1, <1>2, <1>4, FlattenedType

LEMMA ResultBlocksType ==
  ASSUME NEW content \in Seq(Blocks) PROVE ContentToolResults(content) \in Seq(Blocks)
<1> DEFINE ss == [i \in DOMAIN content |-> IF content[i].kind = "result" THEN <<content[i]>> ELSE <<>>]
<1>1. \A i \in DOMAIN content : content[i] \in Blocks
  OBVIOUS
<1>2. ss \in [DOMAIN content -> Seq(Blocks)]
  BY <1>1
<1>3. ContentToolResults(content) = FlattenSeq(ss)
  BY DEF ContentToolResults, Only
<1> HIDE DEF ss
<1> QED BY <1>2, <1>3, FlattenedType

LEMMA ExtractedResults ==
  ASSUME NEW m \in CanonicalMessages
  PROVE  /\ ExtractToolResults(m) \in Seq(Held)
         /\ m.role = "tool" /\ m.answers # NoId =>
              [id |-> m.answers, text |-> VisibleText(m.content)] \in ToSet(ExtractToolResults(m))
<1> DEFINE s == ContentToolResults(m.content)
           ss == [i \in DOMAIN s |-> IF s[i].id # NoId THEN <<s[i]>> ELSE <<>>]
           bs == FlattenSeq(ss)
           rs == [i \in DOMAIN bs |-> [id |-> bs[i].id, text |-> bs[i].text]]
           own == IF m.role = "tool" /\ m.answers # NoId
                  THEN <<[id |-> m.answers, text |-> VisibleText(m.content)]>> ELSE <<>>
<1>0. m.content \in Seq(Blocks) /\ m.answers \in Nat
  BY DEF CanonicalMessages
<1>1. s \in Seq(Blocks)
  BY <1>0, ResultBlocksType
<1>2. ExtractToolResults(m) = rs \o own
  BY DEF ExtractToolResults, Only
<1> HIDE DEF s
<1>3. \A i \in DOMAIN s : s[i] \in Blocks
  BY <1>1
<1>4. ss \in [DOMAIN s -> Seq(Blocks)]
  BY <1>3
<1> HIDE DEF ss
<1>5. bs \in Seq(Blocks)
  BY <1>1, <1>4, FlattenedType
<1> HIDE DEF bs
<1>6. rs \in Seq(Held)
  <2>1. \A i \in DOMAIN bs : [id |-> bs[i].id, text |-> bs[i].text] \in ToolResults
    <3>1. \A i \in DOMAIN bs : bs[i].id \in Nat /\ bs[i].text \in Seq(TextPieces)
      BY <1>5, BlockFields
    <3> QED BY <3>1 DEF ToolResults
  <2>2. rs \in [DOMAIN bs -> Held]
    BY <2>1 DEF Held
  <2> HIDE DEF rs
  <2> QED BY <1>5, <2>2, MapInSeq
<1>7. own \in Seq(Held)
  <2>1. VisibleText(m.content) \in Seq(TextPieces)
    BY <1>0, VisibleTextType
  <2>2. [id |-> m.answers, text |-> VisibleText(m.content)] \in Held
    BY <1>0, <2>1 DEF ToolResults, Held
  <2> QED BY <2>2
<1>8. m.role = "tool" /\ m.answers # NoId =>
        [id |-> m.answers, text |-> VisibleText(m.content)] \in ToSet(own)
  BY DEF ToSet
<1> HIDE DEF rs, own
<1>9. rs \o own \in Seq(Held) /\ ToSet(rs \o own) = ToSet(rs) \cup ToSet(own)
  BY <1>6, <1>7, ToSetJoins
<1> QED BY <1>2, <1>8, <1>9

(* Turns whose contents are in C. *)
TurnsOf(C) == [role : {"user", "assistant"}, content : C, images : Slices, results : Slices]

TurnsIn(heap, C) == {t \in TurnsOf(C) : Within(heap, t.images) /\ Within(heap, t.results)}

(* The state of convertToUnified: every slice, of a turn or waiting, is     *)
(* within its array.                                                        *)
Gathering(C) ==
  {acc \in [heap : Heaps, results : Slices, images : Slices, out : Seq(TurnsOf(C))] :
     /\ Within(acc.heap, acc.results) /\ Within(acc.heap, acc.images)
     /\ \A i \in DOMAIN acc.out : acc.out[i] \in TurnsIn(acc.heap, C)}

(* The step of convertToUnified. *)
Absorb(acc, m) ==
  CASE m.role \in {"system", "developer"} -> acc
    [] m.role = "tool" -> Gather(acc, m)
    [] OTHER -> Speak(Flush(acc), m)

Absorbing == INSTANCE FoldFacts WITH Op <- Absorb

LEMMA TurnsWider ==
  ASSUME NEW C, NEW h1, NEW h2, Wider(h1, h2), NEW t \in TurnsIn(h1, C) PROVE t \in TurnsIn(h2, C)
BY WithinWider DEF TurnsIn

(* One turn more. *)
LEMMA OutGrows ==
  ASSUME NEW C, NEW heap, NEW out \in Seq(TurnsOf(C)), \A i \in DOMAIN out : out[i] \in TurnsIn(heap, C),
         NEW t \in TurnsIn(heap, C)
  PROVE  /\ Append(out, t) \in Seq(TurnsOf(C))
         /\ \A i \in DOMAIN Append(out, t) : Append(out, t)[i] \in TurnsIn(heap, C)
<1>1. t \in TurnsOf(C)
  BY DEF TurnsIn
<1> HIDE DEF TurnsOf
<1>2. Append(out, t) \in Seq(TurnsOf(C))
  BY <1>1
<1>3. \A i \in DOMAIN Append(out, t) : (i \in DOMAIN out /\ Append(out, t)[i] = out[i]) \/ Append(out, t)[i] = t
  BY <1>1
<1> QED BY <1>2, <1>3

LEMMA GatheringFields ==
  ASSUME NEW C, NEW acc \in Gathering(C)
  PROVE  /\ acc.heap \in Heaps /\ acc.results \in Slices /\ acc.images \in Slices
         /\ acc.out \in Seq(TurnsOf(C))
         /\ Within(acc.heap, acc.results) /\ Within(acc.heap, acc.images)
         /\ \A i \in DOMAIN acc.out : acc.out[i] \in TurnsIn(acc.heap, C)
BY DEF Gathering

(* flush adds nothing, or a turn of the user without a text. *)
LEMMA FlushKeeps ==
  ASSUME NEW C, <<>> \in C, NEW acc \in Gathering(C)
  PROVE  /\ Flush(acc) \in Gathering(C)
         /\ \/ Flush(acc).out = acc.out
            \/ \E t \in TurnsOf(C) : /\ t.role = "user" /\ t.content = <<>>
                                     /\ Flush(acc).out = Append(acc.out, t)
<1>0. /\ acc.heap \in Heaps /\ acc.results \in Slices /\ acc.images \in Slices
      /\ acc.out \in Seq(TurnsOf(C))
      /\ Within(acc.heap, acc.results) /\ Within(acc.heap, acc.images)
      /\ \A i \in DOMAIN acc.out : acc.out[i] \in TurnsIn(acc.heap, C)
  BY GatheringFields
<1>1. CASE acc.results.len = 0 /\ acc.images.len = 0
  BY <1>1 DEF Flush
<1>2. CASE ~(acc.results.len = 0 /\ acc.images.len = 0)
  <2> DEFINE t == Turn("user", <<>>, acc.images, acc.results)
             out == Append(acc.out, t)
             results == [acc.results EXCEPT !.len = 0]
             images == [acc.images EXCEPT !.len = 0]
             next == [acc EXCEPT !.out = out, !.results = results, !.images = images]
  <2>1. t \in TurnsOf(C) /\ t.role = "user" /\ t.content = <<>> /\ t \in TurnsIn(acc.heap, C)
    BY <1>0 DEF Turn, TurnsOf, TurnsIn
  <2>2. Flush(acc) = next
    BY <1>2 DEF Flush
  <2>3. /\ Within(acc.heap, results) /\ results \in Slices
        /\ Within(acc.heap, images) /\ images \in Slices
    BY <1>0, Emptied
  <2> HIDE DEF results, images, t
  <2>4. out \in Seq(TurnsOf(C)) /\ \A i \in DOMAIN out : out[i] \in TurnsIn(acc.heap, C)
    BY <1>0, <2>1, OutGrows
  <2> HIDE DEF TurnsOf
  <2>5. acc \in [heap : Heaps, results : Slices, images : Slices, out : Seq(TurnsOf(C))]
    BY DEF Gathering
  <2>6. /\ [acc EXCEPT !.out = Append(acc.out, t), !.results = results, !.images = images]
             \in [heap : Heaps, results : Slices, images : Slices, out : Seq(TurnsOf(C))]
        /\ next.heap = acc.heap /\ next.results = results /\ next.images = images
        /\ next.out = out
    <3> HIDE DEF out
    <3> QED BY <2>3, <2>4, <2>5 DEF out
  <2>7. next \in Gathering(C)
    <3> HIDE DEF out
    <3> QED BY <2>3, <2>4, <2>6 DEF Gathering, out
  <2> HIDE DEF next
  <2> QED BY <2>1, <2>2, <2>6, <2>7
<1> QED BY <1>1, <1>2

(* A tool message adds no turn. *)
LEMMA GatherKeeps ==
  ASSUME NEW C, NEW acc \in Gathering(C), NEW m \in CanonicalMessages
  PROVE  Gather(acc, m) \in Gathering(C) /\ Gather(acc, m).out = acc.out
<1> DEFINE results == GoAppend(acc.heap, acc.results, ExtractToolResults(m))
           images == GoAppend(results.heap, acc.images, ExtractImages(m))
           h == images.heap
           r == results.slice
           p == images.slice
<1>0. /\ acc.heap \in Heaps /\ acc.results \in Slices /\ acc.images \in Slices
      /\ acc.out \in Seq(TurnsOf(C))
      /\ Within(acc.heap, acc.results) /\ Within(acc.heap, acc.images)
      /\ \A i \in DOMAIN acc.out : acc.out[i] \in TurnsIn(acc.heap, C)
  BY GatheringFields
<1>1. Gather(acc, m) = [acc EXCEPT !.heap = h, !.results = r, !.images = p]
  BY DEF Gather
<1>2. /\ Wider(acc.heap, results.heap) /\ results.heap \in Heaps
      /\ Within(results.heap, r)
  BY <1>0, ExtractedResults, GoAppendType
<1> HIDE DEF results
<1>3. Within(results.heap, acc.images)
  BY <1>0, <1>2, WithinWider
<1>4. Wider(results.heap, h) /\ h \in Heaps /\ Within(h, p)
  BY <1>2, <1>3, ExtractedImages, GoAppendType
<1> HIDE DEF images
<1>5. Wider(acc.heap, h) /\ Within(h, r)
  BY <1>2, <1>4, WiderThen, WithinWider
<1> HIDE DEF h, r, p
<1>6. \A i \in DOMAIN acc.out : acc.out[i] \in TurnsIn(h, C)
  BY <1>0, <1>5, TurnsWider
<1>7. r \in Slices /\ p \in Slices
  BY <1>4, <1>5 DEF Within
<1> HIDE DEF TurnsOf
<1>8. acc \in [heap : Heaps, results : Slices, images : Slices, out : Seq(TurnsOf(C))]
  BY DEF Gathering
<1> DEFINE next == [acc EXCEPT !.heap = h, !.results = r, !.images = p]
<1>9. /\ next \in [heap : Heaps, results : Slices, images : Slices, out : Seq(TurnsOf(C))]
      /\ next.heap = h /\ next.results = r /\ next.images = p /\ next.out = acc.out
  BY <1>4, <1>7, <1>8
<1> HIDE DEF next
<1>10. next \in Gathering(C)
  BY <1>4, <1>5, <1>6, <1>9 DEF Gathering
<1> QED BY <1>1, <1>9, <1>10 DEF next

(* Any other message adds its own. *)
LEMMA SpeakKeeps ==
  ASSUME NEW C, NEW acc \in Gathering(C), NEW m \in CanonicalMessages, m.content \in C
  PROVE  /\ Speak(acc, m) \in Gathering(C)
         /\ \E t \in TurnsOf(C) : /\ t.role = IF m.role # "assistant" THEN "user" ELSE "assistant"
                                  /\ t.content = m.content
                                  /\ Speak(acc, m).out = Append(acc.out, t)
<1> DEFINE user == m.role # "assistant"
           xs == IF user THEN ExtractToolResults(m) ELSE <<>>
           results == NewSlice(acc.heap, xs)
           images == NewSlice(results.heap, ExtractImages(m))
           h == images.heap
           r == results.slice
           p == images.slice
           role == IF user THEN "user" ELSE "assistant"
           t == Turn(role, m.content, p, r)
           out == Append(acc.out, t)
           next == [acc EXCEPT !.heap = h, !.out = out]
<1>0. /\ acc.heap \in Heaps /\ acc.results \in Slices /\ acc.images \in Slices
      /\ acc.out \in Seq(TurnsOf(C))
      /\ Within(acc.heap, acc.results) /\ Within(acc.heap, acc.images)
      /\ \A i \in DOMAIN acc.out : acc.out[i] \in TurnsIn(acc.heap, C)
  BY GatheringFields
<1>1. Speak(acc, m) = next
  BY DEF Speak
<1>2. xs \in Seq(Held)
  <2> DEFINE es == ExtractToolResults(m)
  <2>1. es \in Seq(Held)
    BY ExtractedResults
  <2> HIDE DEF es
  <2>2. <<>> \in Seq(Held)
    OBVIOUS
  <2>3. xs = IF user THEN es ELSE <<>>
    BY DEF es
  <2> HIDE DEF xs
  <2> QED BY <2>1, <2>2, <2>3
<1> HIDE DEF xs
<1>3. /\ Wider(acc.heap, results.heap) /\ results.heap \in Heaps /\ Within(results.heap, r)
  BY <1>0, <1>2, NewSliceType
<1> HIDE DEF results
<1>4. Wider(results.heap, h) /\ h \in Heaps /\ Within(h, p)
  BY <1>3, ExtractedImages, NewSliceType
<1> HIDE DEF images
<1>5. Wider(acc.heap, h) /\ Within(h, r)
  BY <1>3, <1>4, WiderThen, WithinWider
<1> HIDE DEF h, r, p
<1>6. \A i \in DOMAIN acc.out : acc.out[i] \in TurnsIn(h, C)
  BY <1>0, <1>5, TurnsWider
<1>7. r \in Slices /\ p \in Slices
  BY <1>4, <1>5 DEF Within
<1>8. role \in {"user", "assistant"}
  OBVIOUS
<1> HIDE DEF role
<1>9. t \in TurnsOf(C) /\ t.role = role /\ t.content = m.content /\ t \in TurnsIn(h, C)
  BY <1>4, <1>5, <1>7, <1>8 DEF Turn, TurnsOf, TurnsIn
<1> HIDE DEF t
<1>10. out \in Seq(TurnsOf(C)) /\ \A i \in DOMAIN out : out[i] \in TurnsIn(h, C)
  BY <1>0, <1>6, <1>9, OutGrows
<1> HIDE DEF TurnsOf
<1>11. acc \in [heap : Heaps, results : Slices, images : Slices, out : Seq(TurnsOf(C))]
  BY DEF Gathering
<1> HIDE DEF out
<1>12. /\ next \in [heap : Heaps, results : Slices, images : Slices, out : Seq(TurnsOf(C))]
       /\ next.heap = h /\ next.results = acc.results /\ next.images = acc.images /\ next.out = out
  BY <1>4, <1>10, <1>11
<1> HIDE DEF next
<1>13. Within(h, acc.results) /\ Within(h, acc.images)
  BY <1>0, <1>5, WithinWider
<1>14. next \in Gathering(C)
  BY <1>10, <1>12, <1>13 DEF Gathering
<1> QED BY <1>1, <1>9, <1>12, <1>14 DEF out, role

-----------------------------------------------------------------------------
(* Kiro's payload: what is said.  Words are followed from the messages to   *)
(* the turns, and as far as the last turn of the user.                      *)

UnfilledPiece(p) == IF p # Filler[1] THEN <<p>> ELSE <<>>

(* Unfilled, as a list of lists. *)
LEMMA UnfilledParts ==
  ASSUME NEW t \in Seq(TextPieces)
  PROVE  LET ss == [i \in DOMAIN t |-> UnfilledPiece(t[i])]
         IN ss \in Seq(Seq(TextPieces)) /\ Unfilled(t) = FlattenSeq(ss)
<1> DEFINE ss == [i \in DOMAIN t |-> UnfilledPiece(t[i])]
<1>1. \A i \in DOMAIN t : t[i] \in TextPieces
  OBVIOUS
<1>2. \A i \in DOMAIN t : UnfilledPiece(t[i]) \in Seq(TextPieces)
  BY <1>1 DEF UnfilledPiece
<1>3. ss \in [DOMAIN t -> Seq(TextPieces)]
  BY <1>2
<1>4. Unfilled(t) = FlattenSeq(ss)
  BY DEF Unfilled, Only, UnfilledPiece
<1> HIDE DEF ss
<1>5. ss \in Seq(Seq(TextPieces))
  BY <1>3, MapInSeq
<1> QED BY <1>4, <1>5 DEF ss

LEMMA UnfilledType == ASSUME NEW t \in Seq(TextPieces) PROVE Unfilled(t) \in Seq(TextPieces)
BY UnfilledParts, FlattenInSeq

LEMMA UnfilledJoins ==
  ASSUME NEW s \in Seq(TextPieces), NEW t \in Seq(TextPieces)
  PROVE  Unfilled(s \o t) = Unfilled(s) \o Unfilled(t)
<1> DEFINE f(w) == [i \in DOMAIN w |-> UnfilledPiece(w[i])]
           u == s \o t
           a == f(s)
           b == f(t)
           c == f(u)
<1>1. /\ u \in Seq(TextPieces) /\ Len(u) = Len(s) + Len(t) /\ DOMAIN u = 1..(Len(s) + Len(t))
      /\ Len(s) \in Nat /\ DOMAIN s = 1..Len(s) /\ Len(t) \in Nat /\ DOMAIN t = 1..Len(t)
      /\ \A i \in DOMAIN s : i \in DOMAIN u /\ u[i] = s[i]
      /\ \A i \in DOMAIN t : Len(s) + i \in DOMAIN u /\ u[Len(s) + i] = t[i]
      /\ \A i \in DOMAIN u : i \in DOMAIN s \/ (i - Len(s) \in DOMAIN t /\ u[i] = t[i - Len(s)])
  BY Joined
<1> HIDE DEF u
<1>2. /\ a \in Seq(Seq(TextPieces)) /\ Unfilled(s) = FlattenSeq(a)
      /\ b \in Seq(Seq(TextPieces)) /\ Unfilled(t) = FlattenSeq(b)
      /\ c \in Seq(Seq(TextPieces)) /\ Unfilled(u) = FlattenSeq(c)
  BY <1>1, UnfilledParts
<1>3. /\ DOMAIN a = DOMAIN s /\ DOMAIN b = DOMAIN t /\ DOMAIN c = DOMAIN u
      /\ \A i \in DOMAIN s : a[i] = UnfilledPiece(s[i])
      /\ \A i \in DOMAIN t : b[i] = UnfilledPiece(t[i])
      /\ \A i \in DOMAIN u : c[i] = UnfilledPiece(u[i])
  OBVIOUS
<1> HIDE DEF a, b, c
<1>4. Len(a) = Len(s) /\ Len(b) = Len(t) /\ Len(c) = Len(u)
  BY <1>1, <1>2, <1>3
<1> DEFINE d == a \o b
<1>5. /\ d \in Seq(Seq(TextPieces)) /\ Len(d) = Len(s) + Len(t) /\ DOMAIN d = 1..(Len(s) + Len(t))
      /\ \A i \in DOMAIN a : d[i] = a[i]
      /\ \A i \in DOMAIN b : d[Len(s) + i] = b[i]
  <2> DEFINE T == Seq(TextPieces)
  <2>1. a \in Seq(T) /\ b \in Seq(T)
    BY <1>2
  <2> HIDE DEF T
  <2>2. /\ d \in Seq(T) /\ Len(d) = Len(a) + Len(b) /\ DOMAIN d = 1..(Len(a) + Len(b))
        /\ \A i \in DOMAIN a : d[i] = a[i]
        /\ \A i \in DOMAIN b : d[Len(a) + i] = b[i]
    BY <2>1, Joined
  <2> QED BY <1>4, <2>2 DEF T
<1> HIDE DEF d
<1>6. ASSUME NEW i \in DOMAIN u PROVE c[i] = d[i]
  <2>1. CASE i \in DOMAIN s
    BY <1>1, <1>3, <1>5, <2>1
  <2>2. CASE i \notin DOMAIN s
    <3>1. i - Len(s) \in DOMAIN t /\ u[i] = t[i - Len(s)] /\ i \in Int
      BY <1>1, <2>2
    <3>2. d[Len(s) + (i - Len(s))] = b[i - Len(s)]
      BY <1>3, <1>5, <3>1
    <3>3. Len(s) + (i - Len(s)) = i
      BY <1>1, <3>1
    <3>4. b[i - Len(s)] = UnfilledPiece(t[i - Len(s)])
      BY <1>3, <3>1
    <3> QED BY <1>3, <3>1, <3>2, <3>3, <3>4
  <2> QED BY <2>1, <2>2
<1>7. c = d
  <2> DEFINE T == Seq(TextPieces)
  <2>1. c \in Seq(T) /\ d \in Seq(T) /\ Len(c) = Len(d) /\ DOMAIN u = 1..Len(c)
    BY <1>1, <1>2, <1>4, <1>5
  <2> HIDE DEF T
  <2> QED BY <1>6, <2>1
<1>8. FlattenSeq(d) = FlattenSeq(a) \o FlattenSeq(b)
  BY <1>2, FlattenJoins DEF d
<1> QED BY <1>2, <1>7, <1>8 DEF u

LEMMA UnfilledNothing == Unfilled(<<>>) = <<>> /\ Unfilled(Filler) = <<>>
<1>1. <<>> \in Seq(TextPieces) /\ Filler \in Seq(TextPieces)
  BY PlainType DEF Filler
<1>2. Unfilled(<<>>) = <<>>
  <2> DEFINE t == <<>>
             ss == [i \in DOMAIN t |-> UnfilledPiece(t[i])]
  <2>1. ss \in Seq(Seq(TextPieces)) /\ Unfilled(t) = FlattenSeq(ss)
    BY <1>1, UnfilledParts
  <2>2. DOMAIN ss = {}
    OBVIOUS
  <2> HIDE DEF ss
  <2> QED BY <2>1, <2>2, FlattenBlank
<1>3. Unfilled(Filler) = <<>>
  <2> DEFINE t == Filler
             ss == [i \in DOMAIN t |-> UnfilledPiece(t[i])]
  <2>1. ss \in Seq(Seq(TextPieces)) /\ Unfilled(t) = FlattenSeq(ss)
    BY <1>1, UnfilledParts
  <2>2. DOMAIN Filler = {1}
    BY DEF Filler, Plain
  <2>3. \A i \in DOMAIN ss : ss[i] = <<>>
    BY <2>2 DEF UnfilledPiece
  <2> HIDE DEF ss
  <2> QED BY <2>1, <2>3, FlattenBlank
<1> QED BY <1>2, <1>3

LEMMA VisibleNone == VisibleText(<<>>) = <<>>
<1>1. ContentText(<<>>) = FlattenSeq([i \in DOMAIN <<>> |-> <<>>[i].text])
  BY DEF ContentText
<1>2. [i \in DOMAIN <<>> |-> <<>>[i].text] = <<>>
  OBVIOUS
<1>3. ContentText(<<>>) = <<>>
  BY <1>1, <1>2, FlattenNone
<1> QED BY <1>3 DEF VisibleText, IsStr

(* A string shows itself. *)
LEMMA VisibleStr == ASSUME NEW t \in Seq(TextPieces) PROVE VisibleText(Str(t)) = t
<1>1. CASE t = <<>>
  BY <1>1, VisibleNone DEF Str
<1>2. CASE t # <<>>
  <2> DEFINE c == <<TextBlock(t)>>
             ss == [i \in DOMAIN c |-> c[i].text]
  <2>1. Str(t) = c
    BY <1>2 DEF Str
  <2>2. ss = <<t>>
    BY DEF TextBlock, Block
  <2>3. ContentText(c) = FlattenSeq(ss)
    BY DEF ContentText
  <2> HIDE DEF ss
  <2>4. ContentText(c) = t
    BY <2>2, <2>3, FlattenSingle
  <2> HIDE DEF c
  <2> QED BY <1>2, <2>1, <2>4 DEF VisibleText
<1> QED BY <1>1, <1>2

(* Merging two contents shows the one after the other. *)
LEMMA MergedShows ==
  ASSUME NEW a \in Seq(Blocks), NEW b \in Seq(Blocks)
  PROVE  /\ MergeContent(a, b) \in Seq(Blocks)
         /\ VisibleText(MergeContent(a, b)) = VisibleText(a) \o VisibleText(b)
<1> DEFINE s == VisibleText(a)
           t == VisibleText(b)
<1>1. s \in Seq(TextPieces) /\ t \in Seq(TextPieces)
  BY VisibleTextType
<1>2. MergeContent(a, b) = (CASE s = <<>> -> b [] s # <<>> /\ t = <<>> -> a [] OTHER -> Str(s \o t))
  BY DEF MergeContent
<1>3. CASE s = <<>>
  <2>1. MergeContent(a, b) = b
    BY <1>2, <1>3
  <2>2. s \o t = t
    BY <1>1, <1>3
  <2> QED BY <2>1, <2>2
<1>4. CASE s # <<>> /\ t = <<>>
  <2>1. MergeContent(a, b) = a
    BY <1>2, <1>4
  <2>2. s \o t = s
    BY <1>1, <1>4
  <2> QED BY <2>1, <2>2
<1>5. CASE s # <<>> /\ t # <<>>
  <2>1. MergeContent(a, b) = Str(s \o t)
    BY <1>2, <1>5
  <2>2. s \o t \in Seq(TextPieces)
    BY <1>1
  <2> HIDE DEF s, t
  <2>3. Str(s \o t) \in Seq(Blocks) /\ VisibleText(Str(s \o t)) = s \o t
    BY <2>2, StrType, VisibleStr
  <2> QED BY <2>1, <2>3 DEF s, t
<1> QED BY <1>3, <1>4, <1>5

(* What a turn says, and a message. *)
WordsOf(turn) == Unfilled(VisibleText(turn.content))

Words(turns) == [i \in DOMAIN turns |-> WordsOf(turns[i])]

SaidBy(m) == IF m.role \in {"user", "assistant"} THEN Unfilled(VisibleText(m.content)) ELSE <<>>

Spoken(ms) == [i \in DOMAIN ms |-> SaidBy(ms[i])]

(* The last turn of the user among the first n is at j; 0 if there is none. *)
UserEnd(turns, n, j) ==
  /\ j \in 0..n /\ (j > 0 => turns[j].role = "user")
  /\ \A i \in (j + 1)..n : turns[i].role # "user"

(* The turns up to j, the last of the user, say what the first k messages   *)
(* do, and no message of the user comes after those.                        *)
CutAt(out, ms, n, j, k) ==
  /\ UserEnd(out, Len(out), j) /\ k \in 0..n
  /\ UpTo(Words(out), j) = UpTo(Spoken(ms), k)
  /\ \A i \in (k + 1)..n : ms[i].role # "user"

(* What the turns say is what the first n messages say, altogether and up   *)
(* to the last of the user.                                                 *)
Follows(out, ms, n) ==
  /\ UpTo(Words(out), Len(out)) = UpTo(Spoken(ms), n)
  /\ \E j \in 0..Len(out), k \in 0..n : CutAt(out, ms, n, j, k)

LEMMA WordsType ==
  ASSUME NEW C, C \subseteq Seq(Blocks), NEW t \in TurnsOf(C) PROVE WordsOf(t) \in Seq(TextPieces)
<1>1. t.content \in Seq(Blocks)
  BY DEF TurnsOf
<1> QED BY <1>1, VisibleTextType, UnfilledType DEF WordsOf

LEMMA SaidByType ==
  ASSUME NEW m \in CanonicalMessages PROVE SaidBy(m) \in Seq(TextPieces)
<1>1. m.content \in Seq(Blocks)
  BY DEF CanonicalMessages
<1> QED BY <1>1, VisibleTextType, UnfilledType DEF SaidBy

(* One turn more says its words after those of the others. *)
WordsGrown(C, out, t) ==
  /\ Append(out, t) \in Seq(TurnsOf(C)) /\ Len(Append(out, t)) = Len(out) + 1
  /\ Len(out) \in Nat
  /\ \A i \in 1..Len(out) : Append(out, t)[i] = out[i]
  /\ Append(out, t)[Len(out) + 1] = t
  /\ \A j \in 0..Len(out) : UpTo(Words(Append(out, t)), j) = UpTo(Words(out), j)
  /\ UpTo(Words(Append(out, t)), Len(out) + 1) = UpTo(Words(out), Len(out)) \o WordsOf(t)
  /\ UpTo(Words(out), Len(out)) \in Seq(TextPieces)

(* One turn more says its words after those of the others. *)
LEMMA WordsGrow ==
  ASSUME NEW C, C \subseteq Seq(Blocks), NEW out \in Seq(TurnsOf(C)), NEW t \in TurnsOf(C)
  PROVE  WordsGrown(C, out, t)
<1> DEFINE next == Append(out, t)
           n == Len(out)
           T == TurnsOf(C)
<1>1. /\ next \in Seq(T) /\ Len(next) = n + 1 /\ n \in Nat
      /\ DOMAIN next = 1..(n + 1) /\ DOMAIN out = 1..n
      /\ \A i \in 1..n : next[i] = out[i]
      /\ next[n + 1] = t
  <2> HIDE DEF T
  <2>1. out \in Seq(T) /\ t \in T
    BY DEF T
  <2> QED BY <2>1, AppendFields
<1>2. \A i \in 1..n : out[i] \in T
  <2> HIDE DEF T
  <2>1. out \in Seq(T)
    BY DEF T
  <2> QED BY <2>1
<1>3. \A i \in 1..n : Words(out)[i] = WordsOf(out[i])
  BY <1>1 DEF Words
<1> HIDE DEF next, n, T
<1>4. \A i \in 1..(n + 1) : Words(next)[i] = WordsOf(next[i])
  BY <1>1 DEF Words
<1>5. \A i \in 1..n : Words(next)[i] = Words(out)[i] /\ Words(out)[i] \in Seq(TextPieces)
  BY <1>1, <1>2, <1>3, <1>4, WordsType DEF T
<1>6. Words(next)[n + 1] = WordsOf(t) /\ WordsOf(t) \in Seq(TextPieces)
  BY <1>1, <1>4, WordsType
<1>7. \A j \in 0..n : UpTo(Words(next), j) = UpTo(Words(out), j)
  <2> TAKE j \in 0..n
  <2>1. j \in Nat /\ \A i \in 1..j : Words(next)[i] = Words(out)[i]
    BY <1>1, <1>5
  <2> QED BY <2>1, UpToSame
<1>8. UpTo(Words(next), n + 1) = UpTo(Words(next), n) \o Words(next)[n + 1]
  <2>1. \A i \in 1..(n + 1) : Words(next)[i] \in Seq(TextPieces)
    BY <1>1, <1>5, <1>6
  <2> QED BY <1>1, <2>1, UpToNext
<1>9. UpTo(Words(out), n) \in Seq(TextPieces)
  BY <1>1, <1>5, UpToType
<1>10. UpTo(Words(next), n + 1) = UpTo(Words(out), n) \o WordsOf(t)
  <2>1. n \in 0..n
    BY <1>1
  <2>2. UpTo(Words(next), n) = UpTo(Words(out), n)
    BY <1>7, <2>1
  <2> QED BY <1>6, <1>8, <2>2
<1> QED BY <1>1, <1>7, <1>9, <1>10 DEF WordsGrown, next, n, T

LEMMA SpokenNext ==
  ASSUME NEW ms \in Seq(CanonicalMessages), NEW n \in Nat, n + 1 <= Len(ms)
  PROVE  /\ UpTo(Spoken(ms), n + 1) = UpTo(Spoken(ms), n) \o SaidBy(ms[n + 1])
         /\ UpTo(Spoken(ms), n) \in Seq(TextPieces)
<1>1. Len(ms) \in Nat /\ DOMAIN ms = 1..Len(ms)
  OBVIOUS
<1>2. \A i \in 1..Len(ms) : ms[i] \in CanonicalMessages
  OBVIOUS
<1>3. \A i \in 1..Len(ms) : Spoken(ms)[i] = SaidBy(ms[i])
  BY <1>1 DEF Spoken
<1>4. \A i \in 1..(n + 1) : Spoken(ms)[i] = SaidBy(ms[i]) /\ Spoken(ms)[i] \in Seq(TextPieces)
  BY <1>1, <1>2, <1>3, SaidByType
<1>5. UpTo(Spoken(ms), n + 1) = UpTo(Spoken(ms), n) \o Spoken(ms)[n + 1]
  BY <1>4, UpToNext
<1>6. UpTo(Spoken(ms), n) \in Seq(TextPieces)
  BY <1>4, UpToType
<1>7. Spoken(ms)[n + 1] = SaidBy(ms[n + 1])
  <2>1. n + 1 \in 1..(n + 1)
    OBVIOUS
  <2> QED BY <1>4, <2>1
<1> QED BY <1>5, <1>6, <1>7

LEMMA FollowsNothing == ASSUME NEW ms PROVE Follows(<<>>, ms, 0)
<1>1. CutAt(<<>>, ms, 0, 0, 0)
  BY UpToNone DEF CutAt, UserEnd
<1> QED BY <1>1, UpToNone DEF Follows

(* A message that is neither of the user nor of the assistant. *)
LEMMA FollowsPast ==
  ASSUME NEW ms \in Seq(CanonicalMessages), NEW n \in Nat, n + 1 <= Len(ms),
         NEW out, Follows(out, ms, n), ms[n + 1].role \notin {"user", "assistant"}
  PROVE  Follows(out, ms, n + 1)
<1>1. UpTo(Spoken(ms), n + 1) = UpTo(Spoken(ms), n)
  <2>1. SaidBy(ms[n + 1]) = <<>>
    BY DEF SaidBy
  <2> DEFINE w == UpTo(Spoken(ms), n)
  <2>2. UpTo(Spoken(ms), n + 1) = w \o <<>> /\ w \in Seq(TextPieces)
    BY <2>1, SpokenNext
  <2> HIDE DEF w
  <2>3. w \o <<>> = w
    BY <2>2
  <2> QED BY <2>2, <2>3 DEF w
<1>2. PICK j \in 0..Len(out), k \in 0..n : CutAt(out, ms, n, j, k)
  BY DEF Follows
<1>3. k \in 0..(n + 1) /\ \A i \in (k + 1)..(n + 1) : ms[i].role # "user"
  <2>1. \A i \in (k + 1)..(n + 1) : i = n + 1 \/ i \in (k + 1)..n
    OBVIOUS
  <2> QED BY <1>2, <2>1 DEF CutAt
<1>4. CutAt(out, ms, n + 1, j, k)
  BY <1>2, <1>3 DEF CutAt
<1> QED BY <1>1, <1>3, <1>4 DEF Follows

(* A turn that says nothing: that of flush. *)
LEMMA FollowsFlush ==
  ASSUME NEW C, C \subseteq Seq(Blocks), NEW out \in Seq(TurnsOf(C)), NEW t \in TurnsOf(C),
         t.role = "user", t.content = <<>>, NEW ms, NEW n \in Nat, Follows(out, ms, n)
  PROVE  Follows(Append(out, t), ms, n)
<1> DEFINE next == Append(out, t)
           l == Len(out)
           w == UpTo(Words(out), l)
<1>1. /\ Len(next) = l + 1 /\ l \in Nat /\ next[l + 1] = t
      /\ UpTo(Words(next), l + 1) = w \o WordsOf(t)
      /\ w \in Seq(TextPieces)
  BY WordsGrow DEF WordsGrown
<1>2. WordsOf(t) = <<>>
  BY VisibleNone, UnfilledNothing DEF WordsOf
<1>3. w = UpTo(Spoken(ms), n)
  BY DEF Follows
<1> HIDE DEF w, next, l
<1>4. UpTo(Words(next), l + 1) = UpTo(Spoken(ms), n)
  <2>1. w \o <<>> = w
    BY <1>1
  <2> QED BY <1>1, <1>2, <1>3, <2>1
<1>5. UserEnd(next, Len(next), l + 1)
  BY <1>1 DEF UserEnd
<1>6. CutAt(next, ms, n, l + 1, n)
  BY <1>4, <1>5 DEF CutAt
<1>7. l + 1 \in 0..Len(next) /\ n \in 0..n
  BY <1>1
<1>8. Follows(next, ms, n)
  BY <1>1, <1>4, <1>6, <1>7 DEF Follows
<1> QED BY <1>8 DEF next

(* The turn of a message. *)
LEMMA FollowsSpeak ==
  ASSUME NEW C, C \subseteq Seq(Blocks), NEW out \in Seq(TurnsOf(C)), NEW t \in TurnsOf(C),
         NEW ms \in Seq(CanonicalMessages), NEW n \in Nat, n + 1 <= Len(ms),
         ms[n + 1].role \in {"user", "assistant"}, t.role = ms[n + 1].role,
         t.content = ms[n + 1].content, Follows(out, ms, n)
  PROVE  Follows(Append(out, t), ms, n + 1)
<1> DEFINE next == Append(out, t)
           l == Len(out)
           w == UpTo(Words(out), l)
<1>1. /\ Len(next) = l + 1 /\ l \in Nat /\ next[l + 1] = t
      /\ \A i \in 1..l : next[i] = out[i]
      /\ \A j \in 0..l : UpTo(Words(next), j) = UpTo(Words(out), j)
      /\ UpTo(Words(next), l + 1) = w \o WordsOf(t)
  BY WordsGrow DEF WordsGrown
<1>2. WordsOf(t) = SaidBy(ms[n + 1])
  BY DEF WordsOf, SaidBy
<1>3. w = UpTo(Spoken(ms), n)
  BY DEF Follows
<1>4. UpTo(Spoken(ms), n + 1) = UpTo(Spoken(ms), n) \o SaidBy(ms[n + 1])
  BY SpokenNext
<1>5. PICK j \in 0..l, k \in 0..n : CutAt(out, ms, n, j, k)
  BY DEF Follows
<1> HIDE DEF w, next, l
<1>6. UpTo(Words(next), l + 1) = UpTo(Spoken(ms), n + 1)
  BY <1>1, <1>2, <1>3, <1>4
<1>7. CASE t.role = "user"
  <2>1. UserEnd(next, Len(next), l + 1)
    BY <1>1, <1>7 DEF UserEnd
  <2>2. CutAt(next, ms, n + 1, l + 1, n + 1)
    BY <1>6, <2>1 DEF CutAt
  <2>3. l + 1 \in 0..Len(next) /\ n + 1 \in 0..(n + 1)
    BY <1>1
  <2> QED BY <1>1, <1>6, <2>2, <2>3 DEF Follows, next
<1>8. CASE t.role # "user"
  <2>1. UserEnd(out, Len(out), j)
    BY <1>5 DEF CutAt
  <2>2. UserEnd(next, Len(next), j)
    <3>1. j > 0 => j \in 1..l
      BY <1>1
    <3>2. \A i \in (j + 1)..(l + 1) : i = l + 1 \/ (i \in (j + 1)..l /\ i \in 1..l)
      BY <1>1
    <3>3. /\ j > 0 => out[j].role = "user"
          /\ \A i \in (j + 1)..l : out[i].role # "user"
      BY <2>1 DEF UserEnd, l
    <3>4. j > 0 => next[j].role = "user"
      BY <1>1, <3>1, <3>3
    <3>5. \A i \in (j + 1)..(l + 1) : next[i].role # "user"
      BY <1>1, <1>8, <3>2, <3>3
    <3>6. j \in 0..(l + 1)
      BY <1>1
    <3> QED BY <1>1, <3>4, <3>5, <3>6 DEF UserEnd
  <2>3. \A i \in (k + 1)..(n + 1) : ms[i].role # "user"
    <3>1. \A i \in (k + 1)..(n + 1) : i = n + 1 \/ i \in (k + 1)..n
      OBVIOUS
    <3> QED BY <1>5, <1>8, <3>1 DEF CutAt
  <2>4. UpTo(Words(next), j) = UpTo(Spoken(ms), k)
    BY <1>1, <1>5 DEF CutAt
  <2>5. CutAt(next, ms, n + 1, j, k)
    BY <2>2, <2>3, <2>4 DEF CutAt
  <2>6. j \in 0..Len(next) /\ k \in 0..(n + 1)
    BY <1>1
  <2> QED BY <1>1, <1>6, <2>5, <2>6 DEF Follows, next
<1> QED BY <1>7, <1>8

LEMMA FlushFollows ==
  ASSUME NEW C, C \subseteq Seq(Blocks), <<>> \in C, NEW ms, NEW n \in Nat,
         NEW acc \in Gathering(C), Follows(acc.out, ms, n)
  PROVE  Flush(acc) \in Gathering(C) /\ Follows(Flush(acc).out, ms, n)
<1>1. /\ Flush(acc) \in Gathering(C)
      /\ \/ Flush(acc).out = acc.out
         \/ \E t \in TurnsOf(C) : /\ t.role = "user" /\ t.content = <<>>
                                  /\ Flush(acc).out = Append(acc.out, t)
  BY FlushKeeps
<1>2. acc.out \in Seq(TurnsOf(C))
  BY GatheringFields
<1>3. CASE Flush(acc).out = acc.out
  BY <1>1, <1>3
<1>4. ASSUME NEW t \in TurnsOf(C), t.role = "user", t.content = <<>>,
             Flush(acc).out = Append(acc.out, t)
      PROVE  Follows(Flush(acc).out, ms, n)
  BY <1>2, <1>4, FollowsFlush
<1> QED BY <1>1, <1>3, <1>4

LEMMA AbsorbFollows ==
  ASSUME NEW C, C \subseteq Seq(Blocks), <<>> \in C, NEW ms \in Seq(CanonicalMessages),
         \A i \in DOMAIN ms : ms[i].content \in C,
         NEW n \in Nat, n + 1 <= Len(ms),
         NEW acc \in Gathering(C), Follows(acc.out, ms, n)
  PROVE  /\ Absorb(acc, ms[n + 1]) \in Gathering(C)
         /\ Follows(Absorb(acc, ms[n + 1]).out, ms, n + 1)
<1> DEFINE m == ms[n + 1]
<1>1. m \in CanonicalMessages /\ m.content \in C
  <2>1. n + 1 \in DOMAIN ms
    OBVIOUS
  <2> QED BY <2>1
<1>2. m.role \in Roles
  BY <1>1 DEF CanonicalMessages
<1>3. CASE m.role \in {"system", "developer"}
  <2>1. Absorb(acc, m) = acc
    BY <1>3 DEF Absorb
  <2>2. m.role \notin {"user", "assistant"}
    BY <1>3
  <2> QED BY <2>1, <2>2, FollowsPast
<1>4. CASE m.role = "tool"
  <2>1. Absorb(acc, m) = Gather(acc, m)
    BY <1>4 DEF Absorb
  <2>2. m.role \notin {"user", "assistant"}
    BY <1>4
  <2>3. Gather(acc, m) \in Gathering(C) /\ Gather(acc, m).out = acc.out
    BY <1>1, GatherKeeps
  <2>4. Follows(acc.out, ms, n + 1)
    BY <2>2, FollowsPast
  <2> QED BY <2>1, <2>3, <2>4
<1>5. CASE m.role \in {"user", "assistant"}
  <2> DEFINE f == Flush(acc)
  <2>1. Absorb(acc, m) = Speak(f, m)
    BY <1>5 DEF Absorb
  <2>2. f \in Gathering(C) /\ Follows(f.out, ms, n)
    BY FlushFollows
  <2> HIDE DEF f
  <2>3. /\ Speak(f, m) \in Gathering(C)
        /\ \E t \in TurnsOf(C) : /\ t.role = IF m.role # "assistant" THEN "user" ELSE "assistant"
                                 /\ t.content = m.content
                                 /\ Speak(f, m).out = Append(f.out, t)
    BY <1>1, <2>2, SpeakKeeps
  <2>4. PICK t \in TurnsOf(C) : /\ t.role = IF m.role # "assistant" THEN "user" ELSE "assistant"
                                /\ t.content = m.content
                                /\ Speak(f, m).out = Append(f.out, t)
    BY <2>3
  <2>5. t.role = m.role
    BY <1>5, <2>4
  <2>6. f.out \in Seq(TurnsOf(C))
    BY <2>2, GatheringFields
  <2>7. Follows(Append(f.out, t), ms, n + 1)
    BY <1>5, <2>2, <2>4, <2>5, <2>6, FollowsSpeak
  <2> QED BY <2>1, <2>3, <2>4, <2>7
<1> QED BY <1>2, <1>3, <1>4, <1>5 DEF Roles

NothingGathered == [heap |-> <<>>, results |-> NilSlice, images |-> NilSlice, out |-> <<>>]

LEMMA NothingGatheredType == ASSUME NEW C PROVE NothingGathered \in Gathering(C)
<1>1. <<>> \in Heaps /\ NilSlice \in Slices
  BY DEF Heaps, NilSlice, Slices
<1>2. Within(<<>>, NilSlice)
  BY <1>1, NilWithin
<1> QED BY <1>1, <1>2 DEF NothingGathered, Gathering

LEMMA ConvertedIs ==
  ASSUME NEW ms
  PROVE  ConvertToUnified(ms) = Flush(Absorbing!Fold(NothingGathered, ms))
BY DEF ConvertToUnified, FoldLeft, MapThenFoldSet, Absorbing!Fold, Absorbing!Largest, Max, Absorb,
       NothingGathered

(* The whole of convertToUnified. *)
LEMMA ConvertedFollows ==
  ASSUME NEW C, C \subseteq Seq(Blocks), <<>> \in C, NEW ms \in Seq(CanonicalMessages),
         \A i \in DOMAIN ms : ms[i].content \in C
  PROVE  /\ ConvertToUnified(ms) \in Gathering(C)
         /\ Follows(ConvertToUnified(ms).out, ms, Len(ms))
<1>1. PICK g : /\ g[0] = NothingGathered
               /\ \A i \in 1..Len(ms) : g[i] = Absorb(g[i - 1], ms[i])
               /\ g[Len(ms)] = Absorbing!Fold(NothingGathered, ms)
  BY Absorbing!FoldChain
<1> DEFINE M == {n \in Nat : n <= Len(ms) => g[n] \in Gathering(C) /\ Follows(g[n].out, ms, n)}
<1>2. 0 \in M
  <2>1. NothingGathered.out = <<>>
    BY DEF NothingGathered
  <2> QED BY <1>1, <2>1, NothingGatheredType, FollowsNothing
<1>3. ASSUME NEW n \in Nat, n \in M PROVE n + 1 \in M
  <2>0. Len(ms) \in Nat
    OBVIOUS
  <2>1. CASE n + 1 <= Len(ms)
    <3>1. n + 1 \in 1..Len(ms) /\ (n + 1) - 1 = n /\ n <= Len(ms)
      BY <2>0, <2>1
    <3>2. g[n + 1] = Absorb(g[n], ms[n + 1])
      BY <1>1, <3>1
    <3>3. g[n] \in Gathering(C) /\ Follows(g[n].out, ms, n)
      BY <1>3, <3>1
    <3>4. /\ Absorb(g[n], ms[n + 1]) \in Gathering(C)
          /\ Follows(Absorb(g[n], ms[n + 1]).out, ms, n + 1)
      BY <2>1, <3>3, AbsorbFollows
    <3> QED BY <3>2, <3>4
  <2> QED BY <2>1
<1> HIDE DEF M
<1>4. Nat \subseteq M
  BY <1>2, <1>3, Induction
<1>5. Len(ms) \in Nat
  OBVIOUS
<1> DEFINE acc == g[Len(ms)]
<1>6. acc \in Gathering(C) /\ Follows(acc.out, ms, Len(ms))
  BY <1>4, <1>5 DEF M
<1>7. ConvertToUnified(ms) = Flush(acc)
  BY <1>1, ConvertedIs
<1> HIDE DEF acc
<1> QED BY <1>5, <1>6, <1>7, FlushFollows

-----------------------------------------------------------------------------
(* Kiro's payload: adjacent turns of one speaker are merged. *)

(* The step of mergeAdjacent. *)
Adjoin(acc, turn) ==
  IF acc.out = <<>> \/ Last(acc.out).role # turn.role
  THEN [acc EXCEPT !.out = Append(@, turn)]
  ELSE LET cur == Last(acc.out)
           images == GoAppend(acc.heap, cur.images, Cells(acc.heap, turn.images))
           results == GoAppend(images.heap, cur.results, Cells(images.heap, turn.results))
       IN [heap |-> results.heap,
           out |-> Append(Front(acc.out),
                     Turn(cur.role, MergeContent(cur.content, turn.content),
                          images.slice, results.slice))]

Adjoining == INSTANCE FoldFacts WITH Op <- Adjoin

(* No two adjacent turns are of one speaker. *)
Apart(turns) == \A i \in 1..(Len(turns) - 1) : turns[i].role # turns[i + 1].role

(* What has been merged of turns whose slices are on h. *)
Gathered(C, h) ==
  {acc \in [heap : Heaps, out : Seq(TurnsOf(C))] :
     /\ Wider(h, acc.heap) /\ Apart(acc.out)
     /\ \A i \in DOMAIN acc.out : acc.out[i] \in TurnsIn(acc.heap, C)}

(* What it says is what the first n turns say, altogether and up to the     *)
(* last of the user.                                                        *)
Merges(out, ts, n) ==
  /\ UpTo(Words(out), Len(out)) = UpTo(Words(ts), n)
  /\ \E j \in 0..Len(out), k \in 0..n :
       /\ UserEnd(out, Len(out), j) /\ UserEnd(ts, n, k)
       /\ UpTo(Words(out), j) = UpTo(Words(ts), k)

LEMMA TurnFields ==
  ASSUME NEW C, C \subseteq Seq(Blocks), NEW h, NEW t \in TurnsIn(h, C)
  PROVE  /\ t \in TurnsOf(C) /\ t.role \in {"user", "assistant"} /\ t.content \in C
         /\ t.content \in Seq(Blocks) /\ Within(h, t.images) /\ Within(h, t.results)
BY DEF TurnsIn, TurnsOf

LEMMA ApartGrows ==
  ASSUME NEW S, NEW out \in Seq(S), Apart(out), NEW t \in S,
         out = <<>> \/ out[Len(out)].role # t.role
  PROVE  Apart(Append(out, t))
<1> DEFINE next == Append(out, t)
<1>1. /\ Len(next) = Len(out) + 1 /\ Len(out) \in Nat
      /\ \A i \in 1..Len(out) : next[i] = out[i]
      /\ next[Len(out) + 1] = t
  BY AppendFields
<1>2. Len(out) > 0 => out # <<>>
  OBVIOUS
<1> HIDE DEF next
<1>3. ASSUME NEW i \in 1..(Len(next) - 1) PROVE next[i].role # next[i + 1].role
  <2>1. CASE i = Len(out)
    BY <1>1, <1>2, <2>1
  <2>2. CASE i # Len(out)
    <3>1. i \in 1..(Len(out) - 1) /\ i \in 1..Len(out) /\ i + 1 \in 1..Len(out)
      BY <1>1, <2>2
    <3> QED BY <1>1, <3>1 DEF Apart
  <2> QED BY <2>1, <2>2
<1> QED BY <1>3 DEF Apart, next

(* Without its last turn, and with another of the same speaker in its       *)
(* place.                                                                   *)
LEMMA ApartFront ==
  ASSUME NEW S, NEW out \in Seq(S), Apart(out), out # <<>>, NEW u, u.role = Last(out).role
  PROVE  /\ Apart(Front(out))
         /\ Front(out) = <<>> \/ Front(out)[Len(Front(out))].role # u.role
<1> DEFINE f == Front(out)
           x == Last(out)
<1>1. /\ f \in Seq(S) /\ Len(out) \in Nat \ {0} /\ Len(f) = Len(out) - 1
      /\ x = out[Len(out)] /\ \A i \in 1..(Len(out) - 1) : f[i] = out[i]
  BY FrontLast
<1> HIDE DEF f, x
<1>2. Apart(f)
  <2> SUFFICES ASSUME NEW i \in 1..(Len(f) - 1) PROVE f[i].role # f[i + 1].role
    BY DEF Apart
  <2>1. i \in 1..(Len(out) - 1) /\ i + 1 \in 1..(Len(out) - 1)
    BY <1>1
  <2> QED BY <1>1, <2>1 DEF Apart
<1>3. CASE Len(f) > 0
  <2>1. Len(f) \in 1..(Len(out) - 1) /\ Len(f) + 1 = Len(out)
    BY <1>1, <1>3
  <2>2. f[Len(f)].role # x.role
    BY <1>1, <2>1 DEF Apart
  <2> QED BY <1>2, <2>2 DEF f, x
<1>4. CASE ~(Len(f) > 0)
  <2>1. f = <<>>
    BY <1>1, <1>4
  <2> QED BY <1>2, <2>1 DEF f
<1> QED BY <1>3, <1>4

LEMMA WordsNext ==
  ASSUME NEW C, C \subseteq Seq(Blocks), NEW ts \in Seq(TurnsOf(C)), NEW n \in Nat, n + 1 <= Len(ts)
  PROVE  /\ UpTo(Words(ts), n + 1) = UpTo(Words(ts), n) \o WordsOf(ts[n + 1])
         /\ UpTo(Words(ts), n) \in Seq(TextPieces)
<1> DEFINE T == TurnsOf(C)
<1>1. Len(ts) \in Nat /\ DOMAIN ts = 1..Len(ts)
  OBVIOUS
<1>2. \A i \in 1..Len(ts) : ts[i] \in T
  <2> HIDE DEF T
  <2>1. ts \in Seq(T)
    BY DEF T
  <2> QED BY <2>1
<1>3. \A i \in 1..Len(ts) : Words(ts)[i] = WordsOf(ts[i])
  BY <1>1 DEF Words
<1> HIDE DEF T
<1>4. \A i \in 1..(n + 1) : i \in 1..Len(ts)
  BY <1>1
<1>5. \A i \in 1..(n + 1) : Words(ts)[i] = WordsOf(ts[i]) /\ Words(ts)[i] \in Seq(TextPieces)
  BY <1>2, <1>3, <1>4, WordsType DEF T
<1>6. UpTo(Words(ts), n + 1) = UpTo(Words(ts), n) \o Words(ts)[n + 1]
  BY <1>5, UpToNext
<1>7. UpTo(Words(ts), n) \in Seq(TextPieces)
  BY <1>5, UpToType
<1>8. Words(ts)[n + 1] = WordsOf(ts[n + 1])
  <2>1. n + 1 \in 1..(n + 1)
    OBVIOUS
  <2> QED BY <1>5, <2>1
<1> QED BY <1>6, <1>7, <1>8

(* Turns that end with the user end there. *)
LEMMA EndsHere ==
  ASSUME NEW turns, NEW n \in Nat, turns[n + 1].role = "user" PROVE UserEnd(turns, n + 1, n + 1)
BY DEF UserEnd

LEMMA EndsBefore ==
  ASSUME NEW s, NEW t, NEW n \in Nat, NEW j, UserEnd(s, n, j), t[n + 1].role # "user",
         \A i \in 1..n : t[i] = s[i]
  PROVE  UserEnd(t, n + 1, j)
<1>1. j > 0 => j \in 1..n
  BY DEF UserEnd
<1>2. \A i \in (j + 1)..(n + 1) : i = n + 1 \/ (i \in (j + 1)..n /\ i \in 1..n)
  BY DEF UserEnd
<1>3. j \in 0..n /\ (j > 0 => s[j].role = "user") /\ \A i \in (j + 1)..n : s[i].role # "user"
  BY DEF UserEnd
<1>4. j > 0 => t[j].role = "user"
  BY <1>1, <1>3
<1>5. \A i \in (j + 1)..(n + 1) : t[i].role # "user"
  BY <1>2, <1>3
<1> QED BY <1>3, <1>4, <1>5 DEF UserEnd

(* A turn of the other speaker. *)
LEMMA MergesApart ==
  ASSUME NEW C, C \subseteq Seq(Blocks), NEW ts \in Seq(TurnsOf(C)), NEW n \in Nat, n + 1 <= Len(ts),
         NEW out \in Seq(TurnsOf(C)), Merges(out, ts, n)
  PROVE  Merges(Append(out, ts[n + 1]), ts, n + 1)
<1> DEFINE t == ts[n + 1]
           next == Append(out, t)
           l == Len(out)
           w == UpTo(Words(out), l)
<1>0. t \in TurnsOf(C)
  <2> DEFINE T == TurnsOf(C)
  <2> HIDE DEF T
  <2>1. ts \in Seq(T)
    BY DEF T
  <2>2. n + 1 \in 1..Len(ts)
    BY <2>1
  <2> QED BY <2>1, <2>2 DEF T
<1>1. /\ Len(next) = l + 1 /\ l \in Nat /\ next[l + 1] = t
      /\ \A i \in 1..l : next[i] = out[i]
      /\ \A j \in 0..l : UpTo(Words(next), j) = UpTo(Words(out), j)
      /\ UpTo(Words(next), l + 1) = w \o WordsOf(t)
  <2>1. WordsGrown(C, out, t)
    BY <1>0, WordsGrow
  <2> QED BY <2>1 DEF WordsGrown
<1>2. w = UpTo(Words(ts), n)
  BY DEF Merges
<1>3. UpTo(Words(ts), n + 1) = UpTo(Words(ts), n) \o WordsOf(t)
  BY WordsNext
<1>4. PICK j \in 0..l, k \in 0..n :
        /\ UserEnd(out, l, j) /\ UserEnd(ts, n, k)
        /\ UpTo(Words(out), j) = UpTo(Words(ts), k)
  BY DEF Merges
<1> HIDE DEF w, next, l
<1>5. UpTo(Words(next), Len(next)) = UpTo(Words(ts), n + 1)
  BY <1>1, <1>2, <1>3
<1>6. CASE t.role = "user"
  <2>1. UserEnd(next, Len(next), Len(next)) /\ UserEnd(ts, n + 1, n + 1)
    BY <1>1, <1>6, EndsHere
  <2>2. Len(next) \in 0..Len(next) /\ n + 1 \in 0..(n + 1)
    BY <1>1
  <2> QED BY <1>5, <2>1, <2>2 DEF Merges, next
<1>7. CASE t.role # "user"
  <2>1. UserEnd(ts, n + 1, k)
    BY <1>4, <1>7, EndsBefore
  <2>2. UserEnd(next, Len(next), j)
    BY <1>1, <1>4, <1>7, EndsBefore
  <2>3. j \in 0..Len(next) /\ k \in 0..(n + 1) /\ UpTo(Words(next), j) = UpTo(Words(ts), k)
    BY <1>1, <1>4
  <2> QED BY <1>5, <2>1, <2>2, <2>3 DEF Merges, next
<1> QED BY <1>6, <1>7

(* A turn merged into the last. *)
LEMMA MergesInto ==
  ASSUME NEW C, C \subseteq Seq(Blocks), NEW ts \in Seq(TurnsOf(C)), NEW n \in Nat, n + 1 <= Len(ts),
         NEW f \in Seq(TurnsOf(C)), NEW x \in TurnsOf(C), Merges(Append(f, x), ts, n),
         NEW u \in TurnsOf(C), u.role = x.role, u.role = ts[n + 1].role,
         WordsOf(u) = WordsOf(x) \o WordsOf(ts[n + 1])
  PROVE  Merges(Append(f, u), ts, n + 1)
<1> DEFINE t == ts[n + 1]
           out == Append(f, x)
           next == Append(f, u)
           l == Len(f)
           w == UpTo(Words(f), l)
           T == TurnsOf(C)
<1>1. /\ UpTo(Words(out), Len(out)) = UpTo(Words(ts), n)
      /\ \E j \in 0..Len(out), k \in 0..n :
           /\ UserEnd(out, Len(out), j) /\ UserEnd(ts, n, k)
           /\ UpTo(Words(out), j) = UpTo(Words(ts), k)
  BY DEF Merges
<1>2. t \in T
  <2> HIDE DEF T
  <2>1. ts \in Seq(T)
    BY DEF T
  <2>2. n + 1 \in 1..Len(ts)
    BY <2>1
  <2> QED BY <2>1, <2>2
<1>3. ASSUME NEW z \in TurnsOf(C)
      PROVE  /\ Len(Append(f, z)) = l + 1 /\ Append(f, z)[l + 1] = z
             /\ \A i \in 1..l : Append(f, z)[i] = f[i]
             /\ \A j \in 0..l : UpTo(Words(Append(f, z)), j) = UpTo(Words(f), j)
             /\ UpTo(Words(Append(f, z)), l + 1) = w \o WordsOf(z)
             /\ l \in Nat /\ w \in Seq(TextPieces)
  <2>1. WordsGrown(C, f, z)
    BY WordsGrow
  <2> QED BY <2>1 DEF WordsGrown
<1> HIDE DEF l, w
<1>4. /\ Len(out) = l + 1 /\ l \in Nat /\ out[l + 1] = x
      /\ \A i \in 1..l : out[i] = f[i]
      /\ \A j \in 0..l : UpTo(Words(out), j) = UpTo(Words(f), j)
      /\ UpTo(Words(out), l + 1) = w \o WordsOf(x)
      /\ w \in Seq(TextPieces)
  BY <1>3
<1>5. /\ Len(next) = l + 1 /\ next[l + 1] = u
      /\ \A i \in 1..l : next[i] = f[i]
      /\ \A j \in 0..l : UpTo(Words(next), j) = UpTo(Words(f), j)
      /\ UpTo(Words(next), l + 1) = w \o WordsOf(u)
  BY <1>3
<1>6. w \o WordsOf(x) = UpTo(Words(ts), n)
  BY <1>1, <1>4
<1>7. UpTo(Words(ts), n + 1) = UpTo(Words(ts), n) \o WordsOf(t)
  BY WordsNext
<1>8. PICK j \in 0..Len(out), k \in 0..n :
        /\ UserEnd(out, Len(out), j) /\ UserEnd(ts, n, k)
        /\ UpTo(Words(out), j) = UpTo(Words(ts), k)
  BY <1>1
<1> HIDE DEF next, out, T
<1>9. UpTo(Words(next), Len(next)) = UpTo(Words(ts), n + 1)
  <2> DEFINE a == WordsOf(x)
             b == WordsOf(t)
  <2>1. a \in Seq(TextPieces) /\ b \in Seq(TextPieces)
    BY <1>2, WordsType DEF T
  <2>2. WordsOf(u) = a \o b
    OBVIOUS
  <2> HIDE DEF a, b
  <2>3. w \o (a \o b) = (w \o a) \o b
    BY SMTT(30), <1>4, <2>1
  <2> QED BY <1>5, <1>6, <1>7, <2>2, <2>3 DEF a, b
<1>10. CASE t.role = "user"
  <2>1. UserEnd(next, Len(next), Len(next)) /\ UserEnd(ts, n + 1, n + 1)
    BY <1>4, <1>5, <1>10, EndsHere
  <2>2. Len(next) \in 0..Len(next) /\ n + 1 \in 0..(n + 1)
    BY <1>4, <1>5
  <2> QED BY <1>9, <2>1, <2>2 DEF Merges, next
<1>11. CASE t.role # "user"
  <2>1. UserEnd(ts, n + 1, k)
    BY <1>8, <1>11, EndsBefore
  <2>2. UserEnd(out, l + 1, j) /\ x.role # "user"
    BY <1>4, <1>8, <1>11
  <2>3. j \in 0..l
    <3>1. j \in 0..(l + 1) /\ (j > 0 => out[j].role = "user")
      BY <2>2 DEF UserEnd
    <3>2. ASSUME j = l + 1 PROVE FALSE
      <4>1. l + 1 > 0 /\ out[l + 1].role = "user"
        BY <1>4, <3>1, <3>2
      <4> QED BY <1>4, <2>2, <4>1
    <3> QED BY <1>4, <3>1, <3>2
  <2>4. UserEnd(f, l, j)
    <3>1. /\ j > 0 => out[j].role = "user"
          /\ \A i \in (j + 1)..(l + 1) : out[i].role # "user"
      BY <2>2 DEF UserEnd
    <3>2. j > 0 => j \in 1..l
      BY <1>4, <2>3
    <3>3. \A i \in (j + 1)..l : i \in 1..l /\ i \in (j + 1)..(l + 1)
      BY <1>4, <2>3
    <3>4. j > 0 => f[j].role = "user"
      BY <1>4, <3>1, <3>2
    <3>5. \A i \in (j + 1)..l : f[i].role # "user"
      BY <1>4, <3>1, <3>3
    <3> QED BY <2>3, <3>4, <3>5 DEF UserEnd
  <2>5. UserEnd(next, l + 1, j)
    BY <1>4, <1>5, <1>11, <2>4, EndsBefore
  <2>6. j \in 0..Len(next) /\ k \in 0..(n + 1) /\ UpTo(Words(next), j) = UpTo(Words(ts), k)
    <3>1. UpTo(Words(next), j) = UpTo(Words(out), j)
      BY <1>4, <1>5, <2>3
    <3>2. j \in 0..Len(next) /\ k \in 0..(n + 1)
      BY <1>4, <1>5, <2>3
    <3> QED BY <1>8, <3>1, <3>2
  <2>7. UserEnd(next, Len(next), j)
    BY <1>5, <2>5
  <2> QED BY <1>9, <2>1, <2>6, <2>7 DEF Merges, next
<1> QED BY <1>10, <1>11

LEMMA MergesLast ==
  ASSUME NEW C, C \subseteq Seq(Blocks), NEW ts \in Seq(TurnsOf(C)), NEW n \in Nat, n + 1 <= Len(ts),
         NEW out \in Seq(TurnsOf(C)), out # <<>>, Merges(out, ts, n),
         NEW u \in TurnsOf(C), u.role = Last(out).role, u.role = ts[n + 1].role,
         WordsOf(u) = WordsOf(Last(out)) \o WordsOf(ts[n + 1])
  PROVE  Merges(Append(Front(out), u), ts, n + 1)
<1> DEFINE f == Front(out)
           x == Last(out)
           T == TurnsOf(C)
<1>1. f \in Seq(T) /\ x \in T /\ out = Append(f, x)
  <2> HIDE DEF T
  <2>1. out \in Seq(T)
    BY DEF T
  <2> QED BY <2>1, TakenApart
<1>2. u.role = x.role /\ WordsOf(u) = WordsOf(x) \o WordsOf(ts[n + 1])
  OBVIOUS
<1> HIDE DEF f, x
<1>3. Merges(Append(f, x), ts, n)
  BY <1>1
<1>4. Merges(Append(f, u), ts, n + 1)
  BY <1>1, <1>2, <1>3, MergesInto DEF T
<1> QED BY <1>4 DEF f

(* The contents turns may have: those of the messages, none, and what       *)
(* merging makes of them.                                                   *)
Closed(C) ==
  /\ C \subseteq Seq(Blocks) /\ <<>> \in C
  /\ \A a \in C, b \in C : MergeContent(a, b) \in C

LEMMA GatheredFields ==
  ASSUME NEW C, NEW h, NEW acc \in Gathered(C, h)
  PROVE  /\ acc \in [heap : Heaps, out : Seq(TurnsOf(C))]
         /\ acc.heap \in Heaps /\ acc.out \in Seq(TurnsOf(C))
         /\ Wider(h, acc.heap) /\ Apart(acc.out)
         /\ \A i \in DOMAIN acc.out : acc.out[i] \in TurnsIn(acc.heap, C)
BY DEF Gathered

(* A step that adds a turn, and one that merges it. *)
LEMMA AdjoinApart ==
  ASSUME NEW C, Closed(C), NEW h, NEW ts \in Seq(TurnsOf(C)), NEW n \in Nat, n + 1 <= Len(ts),
         ts[n + 1] \in TurnsIn(h, C),
         NEW acc \in Gathered(C, h), Merges(acc.out, ts, n),
         acc.out = <<>> \/ Last(acc.out).role # ts[n + 1].role
  PROVE  /\ Adjoin(acc, ts[n + 1]) \in Gathered(C, h)
         /\ Merges(Adjoin(acc, ts[n + 1]).out, ts, n + 1)
<1> DEFINE t == ts[n + 1]
           out == Append(acc.out, t)
           next == [acc EXCEPT !.out = out]
<1>1. /\ acc \in [heap : Heaps, out : Seq(TurnsOf(C))]
      /\ acc.heap \in Heaps /\ acc.out \in Seq(TurnsOf(C))
      /\ Wider(h, acc.heap) /\ Apart(acc.out)
      /\ \A i \in DOMAIN acc.out : acc.out[i] \in TurnsIn(acc.heap, C)
  BY GatheredFields
<1>2. Merges(out, ts, n + 1)
  BY <1>1, MergesApart DEF Closed
<1>3. Adjoin(acc, t) = next
  BY DEF Adjoin
<1>4. t \in TurnsIn(acc.heap, C) /\ t \in TurnsOf(C)
  <2>1. t \in TurnsIn(acc.heap, C)
    BY <1>1, TurnsWider
  <2> QED BY <2>1 DEF TurnsIn
<1>5. Apart(out)
  <2> DEFINE T == TurnsOf(C)
             s == acc.out
  <2>1. s \in Seq(T) /\ t \in T /\ Apart(s)
    BY <1>1, <1>4
  <2>2. s = <<>> \/ Last(s).role # t.role
    OBVIOUS
  <2> HIDE DEF T, s, t
  <2>3. s = <<>> \/ s[Len(s)].role # t.role
    BY <2>1, <2>2, FrontLast
  <2>4. Apart(Append(s, t))
    BY <2>1, <2>3, ApartGrows
  <2> QED BY <2>4 DEF s
<1> HIDE DEF t
<1>6. out \in Seq(TurnsOf(C)) /\ \A i \in DOMAIN out : out[i] \in TurnsIn(acc.heap, C)
  BY <1>1, <1>4, OutGrows
<1> HIDE DEF out, TurnsOf
<1>7. /\ next \in [heap : Heaps, out : Seq(TurnsOf(C))]
      /\ next.heap = acc.heap /\ next.out = out
  BY <1>1, <1>6
<1> HIDE DEF next
<1>8. next \in Gathered(C, h)
  BY <1>1, <1>5, <1>6, <1>7 DEF Gathered
<1> QED BY <1>2, <1>3, <1>7, <1>8 DEF t

LEMMA AdjoinMerged ==
  ASSUME NEW C, Closed(C), NEW h, NEW ts \in Seq(TurnsOf(C)), NEW n \in Nat, n + 1 <= Len(ts),
         ts[n + 1] \in TurnsIn(h, C),
         NEW acc \in Gathered(C, h), Merges(acc.out, ts, n),
         ~(acc.out = <<>> \/ Last(acc.out).role # ts[n + 1].role)
  PROVE  /\ Adjoin(acc, ts[n + 1]) \in Gathered(C, h)
         /\ Merges(Adjoin(acc, ts[n + 1]).out, ts, n + 1)
<1> DEFINE t == ts[n + 1]
           out == acc.out
           f == Front(out)
           x == Last(out)
           H == acc.heap
           xs == Cells(H, t.images)
           images == GoAppend(H, x.images, xs)
           H1 == images.heap
           p == images.slice
           ys == Cells(H1, t.results)
           results == GoAppend(H1, x.results, ys)
           H2 == results.heap
           r == results.slice
           c == MergeContent(x.content, t.content)
           u == Turn(x.role, c, p, r)
           full == Append(f, u)
           next == [heap |-> H2, out |-> full]
<1>1. /\ H \in Heaps /\ out \in Seq(TurnsOf(C)) /\ Wider(h, H) /\ Apart(out)
      /\ \A i \in DOMAIN out : out[i] \in TurnsIn(H, C)
  BY GatheredFields
<1>2. Adjoin(acc, t) = next
  BY DEF Adjoin
<1>3. out # <<>> /\ x.role = t.role
  OBVIOUS
<1>4. t \in TurnsIn(H, C)
  BY <1>1, TurnsWider
<1> HIDE DEF t, out, H
<1>5. /\ f \in Seq(TurnsOf(C)) /\ x \in TurnsIn(H, C)
      /\ \A i \in DOMAIN f : f[i] \in TurnsIn(H, C)
  <2> DEFINE T == TurnsOf(C)
  <2> HIDE DEF T
  <2>1. out \in Seq(T)
    BY <1>1 DEF T
  <2>2. /\ f \in Seq(T) /\ Len(out) \in Nat \ {0} /\ Len(f) = Len(out) - 1
        /\ x = out[Len(out)] /\ \A i \in 1..(Len(out) - 1) : f[i] = out[i]
    BY <1>3, <2>1, FrontLast
  <2> HIDE DEF f, x
  <2>3. DOMAIN out = 1..Len(out) /\ DOMAIN f = 1..Len(f)
    BY <2>1, <2>2
  <2>4. \A i \in DOMAIN f : f[i] = out[i] /\ i \in DOMAIN out
    BY <2>2, <2>3
  <2>5. Len(out) \in DOMAIN out
    BY <2>2, <2>3
  <2> QED BY <1>1, <2>2, <2>4, <2>5 DEF T
<1> HIDE DEF f, x
<1>6. /\ x \in TurnsOf(C) /\ x.role \in {"user", "assistant"} /\ x.content \in C
      /\ x.content \in Seq(Blocks) /\ Within(H, x.images) /\ Within(H, x.results)
      /\ t \in TurnsOf(C) /\ t.content \in C
      /\ t.content \in Seq(Blocks) /\ Within(H, t.images) /\ Within(H, t.results)
  BY <1>4, <1>5, TurnFields DEF Closed
<1>7. xs \in Seq(Held)
  BY <1>1, <1>6, CellsType
<1> HIDE DEF xs
<1>8. Wider(H, H1) /\ H1 \in Heaps /\ Within(H1, p)
  BY <1>1, <1>6, <1>7, GoAppendType
<1> HIDE DEF images
<1>9. Within(H1, x.results) /\ Within(H1, t.results)
  BY <1>6, <1>8, WithinWider
<1> HIDE DEF H1, p
<1>10. ys \in Seq(Held)
  BY <1>8, <1>9, CellsType
<1> HIDE DEF ys
<1>11. Wider(H1, H2) /\ H2 \in Heaps /\ Within(H2, r)
  BY <1>8, <1>9, <1>10, GoAppendType
<1> HIDE DEF results
<1>12. Within(H2, p) /\ Wider(H, H2)
  BY <1>8, <1>11, WithinWider, WiderThen
<1> HIDE DEF H2, r
<1>13. Wider(h, H2)
  BY <1>1, <1>12, WiderThen
<1>14. p \in Slices /\ r \in Slices
  BY <1>11, <1>12 DEF Within
<1>15. c \in C /\ VisibleText(c) = VisibleText(x.content) \o VisibleText(t.content)
  BY <1>6, MergedShows DEF Closed
<1> HIDE DEF c
<1>16. /\ u \in TurnsOf(C) /\ u.role = x.role /\ u.content = c /\ u \in TurnsIn(H2, C)
  BY <1>6, <1>11, <1>12, <1>14, <1>15 DEF Turn, TurnsOf, TurnsIn
<1> HIDE DEF u
<1>17. WordsOf(u) = WordsOf(x) \o WordsOf(t)
  <2>1. VisibleText(x.content) \in Seq(TextPieces) /\ VisibleText(t.content) \in Seq(TextPieces)
    BY <1>6, VisibleTextType
  <2> QED BY <1>15, <1>16, <2>1, UnfilledJoins DEF WordsOf
<1>18. Merges(full, ts, n + 1)
  <2>1. Merges(out, ts, n) /\ C \subseteq Seq(Blocks)
    BY DEF out, Closed
  <2>2. u.role = Last(out).role /\ u.role = ts[n + 1].role
    BY <1>3, <1>16 DEF x, t
  <2>3. WordsOf(u) = WordsOf(Last(out)) \o WordsOf(ts[n + 1])
    BY <1>17 DEF x, t
  <2>4. Merges(Append(Front(out), u), ts, n + 1)
    BY <1>1, <1>3, <1>16, <2>1, <2>2, <2>3, MergesLast
  <2> QED BY <2>4 DEF f
<1>19. Apart(full)
  <2> DEFINE T == TurnsOf(C)
  <2>1. out \in Seq(T) /\ u \in T /\ f \in Seq(T)
    BY <1>1, <1>5, <1>16
  <2> HIDE DEF T
  <2>2. u.role = Last(out).role
    BY <1>16 DEF x
  <2>3. /\ Apart(Front(out))
        /\ Front(out) = <<>> \/ Front(out)[Len(Front(out))].role # u.role
    BY <1>1, <1>3, <2>1, <2>2, ApartFront
  <2>4. Apart(f) /\ (f = <<>> \/ f[Len(f)].role # u.role)
    BY <2>3 DEF f
  <2> QED BY <2>1, <2>4, ApartGrows
<1>20. \A i \in DOMAIN f : f[i] \in TurnsIn(H2, C)
  BY <1>5, <1>12, TurnsWider
<1>21. full \in Seq(TurnsOf(C)) /\ \A i \in DOMAIN full : full[i] \in TurnsIn(H2, C)
  BY <1>5, <1>16, <1>20, OutGrows
<1> HIDE DEF full
<1>22. next \in Gathered(C, h) /\ next.out = full
  BY <1>11, <1>13, <1>19, <1>21 DEF Gathered
<1> HIDE DEF next
<1> QED BY <1>2, <1>18, <1>22 DEF t

LEMMA AdjoinedIs ==
  ASSUME NEW unified
  PROVE  MergeAdjacent(unified) = Adjoining!Fold([heap |-> unified.heap, out |-> <<>>], unified.out)
BY DEF MergeAdjacent, FoldLeft, MapThenFoldSet, Adjoining!Fold, Adjoining!Largest, Max, Adjoin

(* The whole of mergeAdjacent. *)
LEMMA MergedFollows ==
  ASSUME NEW C, Closed(C), NEW h \in Heaps, NEW ts \in Seq(TurnsOf(C)),
         \A i \in DOMAIN ts : ts[i] \in TurnsIn(h, C)
  PROVE  LET merged == Adjoining!Fold([heap |-> h, out |-> <<>>], ts)
         IN merged \in Gathered(C, h) /\ Merges(merged.out, ts, Len(ts))
<1> DEFINE none == [heap |-> h, out |-> <<>>]
           T == TurnsOf(C)
<1>0. ts \in Seq(T)
  OBVIOUS
<1>1. PICK g : /\ g[0] = none
               /\ \A i \in 1..Len(ts) : g[i] = Adjoin(g[i - 1], ts[i])
               /\ g[Len(ts)] = Adjoining!Fold(none, ts)
  <2> HIDE DEF none, T
  <2> QED BY <1>0, Adjoining!FoldChain
<1> DEFINE M == {n \in Nat : n <= Len(ts) => g[n] \in Gathered(C, h) /\ Merges(g[n].out, ts, n)}
<1>2. 0 \in M
  <2>1. Apart(<<>>) /\ Wider(h, h)
    BY WiderSame DEF Apart
  <2>2. none \in Gathered(C, h)
    BY <2>1 DEF Gathered
  <2>3. UserEnd(<<>>, Len(<<>>), 0) /\ UserEnd(ts, 0, 0)
    BY DEF UserEnd
  <2>4. Merges(<<>>, ts, 0)
    BY <2>3, UpToNone DEF Merges
  <2> QED BY <1>1, <2>2, <2>4
<1>3. ASSUME NEW n \in Nat, n \in M PROVE n + 1 \in M
  <2>0. Len(ts) \in Nat /\ DOMAIN ts = 1..Len(ts)
    OBVIOUS
  <2>1. CASE n + 1 <= Len(ts)
    <3>1. n + 1 \in 1..Len(ts) /\ (n + 1) - 1 = n /\ n <= Len(ts)
      BY <2>0, <2>1
    <3>2. g[n + 1] = Adjoin(g[n], ts[n + 1])
      BY <1>1, <3>1
    <3>3. g[n] \in Gathered(C, h) /\ Merges(g[n].out, ts, n)
      BY <1>3, <3>1
    <3>4. ts[n + 1] \in TurnsIn(h, C)
      BY <2>0, <3>1
    <3>5. /\ Adjoin(g[n], ts[n + 1]) \in Gathered(C, h)
          /\ Merges(Adjoin(g[n], ts[n + 1]).out, ts, n + 1)
      BY <2>1, <3>3, <3>4, AdjoinApart, AdjoinMerged
    <3> QED BY <3>2, <3>5
  <2> QED BY <2>1
<1> HIDE DEF M
<1>4. Nat \subseteq M
  BY <1>2, <1>3, Induction
<1>5. Len(ts) \in Nat
  OBVIOUS
<1> QED BY <1>1, <1>4, <1>5 DEF M

(* There is one last turn. *)
LEMMA OneEnd ==
  ASSUME NEW turns, NEW n \in Nat, NEW j, NEW k, UserEnd(turns, n, j), UserEnd(turns, n, k)
  PROVE  j = k
<1>1. /\ j \in 0..n /\ k \in 0..n
      /\ j > 0 => turns[j].role = "user"
      /\ k > 0 => turns[k].role = "user"
      /\ \A i \in (j + 1)..n : turns[i].role # "user"
      /\ \A i \in (k + 1)..n : turns[i].role # "user"
  BY DEF UserEnd
<1>2. ASSUME j < k PROVE FALSE
  <2>1. k \in (j + 1)..n /\ k > 0
    BY <1>1, <1>2
  <2> QED BY <1>1, <2>1
<1>3. ASSUME k < j PROVE FALSE
  <2>1. j \in (k + 1)..n /\ j > 0
    BY <1>1, <1>3
  <2> QED BY <1>1, <2>1
<1> QED BY <1>1, <1>2, <1>3

(* No message after the k-th is of the user. *)
Unspoken(ms, k) == \A i \in (k + 1)..Len(ms) : ms[i].role # "user"

(* The merged turns up to the last of the user say what the messages up to  *)
(* some k do, and the user says nothing after that.                         *)
LEMMA MergedOut ==
  ASSUME NEW C, Closed(C), NEW ms \in Seq(CanonicalMessages), \A i \in DOMAIN ms : ms[i].content \in C
  PROVE  LET out == MergeAdjacent(ConvertToUnified(ms)).out
         IN /\ out \in Seq(TurnsOf(C)) /\ Apart(out)
            /\ \A j \in 0..Len(out) : UserEnd(out, Len(out), j) =>
                 \E k \in 0..Len(ms) :
                   /\ UpTo(Words(out), j) = UpTo(Spoken(ms), k)
                   /\ Unspoken(ms, k)
<1> DEFINE unified == ConvertToUnified(ms)
           h == unified.heap
           ts == unified.out
           merged == MergeAdjacent(unified)
           out == merged.out
<1>1. unified \in Gathering(C) /\ Follows(ts, ms, Len(ms))
  BY ConvertedFollows DEF Closed
<1> HIDE DEF unified
<1>2. h \in Heaps /\ ts \in Seq(TurnsOf(C)) /\ \A i \in DOMAIN ts : ts[i] \in TurnsIn(h, C)
  BY <1>1, GatheringFields
<1>3. merged = Adjoining!Fold([heap |-> h, out |-> <<>>], ts)
  BY AdjoinedIs
<1> HIDE DEF h, ts, merged
<1>4. merged \in Gathered(C, h) /\ Merges(out, ts, Len(ts))
  BY <1>2, <1>3, MergedFollows
<1>5. out \in Seq(TurnsOf(C)) /\ Apart(out)
  BY <1>4, GatheredFields
<1> HIDE DEF out
<1>6. PICK j1 \in 0..Len(out), k1 \in 0..Len(ts) :
        /\ UserEnd(out, Len(out), j1) /\ UserEnd(ts, Len(ts), k1)
        /\ UpTo(Words(out), j1) = UpTo(Words(ts), k1)
  BY <1>4 DEF Merges
<1>7. PICK j2 \in 0..Len(ts), k2 \in 0..Len(ms) : CutAt(ts, ms, Len(ms), j2, k2)
  BY <1>1 DEF Follows
<1>8. /\ UserEnd(ts, Len(ts), j2) /\ UpTo(Words(ts), j2) = UpTo(Spoken(ms), k2)
      /\ Unspoken(ms, k2)
  BY <1>7 DEF CutAt, Unspoken
<1>9. Len(out) \in Nat /\ Len(ts) \in Nat
  <2> DEFINE T == TurnsOf(C)
  <2>1. out \in Seq(T) /\ ts \in Seq(T)
    BY <1>2, <1>5
  <2> HIDE DEF T
  <2> QED BY <2>1
<1>10. k1 = j2
  BY <1>6, <1>8, <1>9, OneEnd
<1>11. ASSUME NEW j \in 0..Len(out), UserEnd(out, Len(out), j)
       PROVE  UpTo(Words(out), j) = UpTo(Spoken(ms), k2) /\ Unspoken(ms, k2)
  <2>1. j = j1
    BY <1>6, <1>9, <1>11, OneEnd
  <2> QED BY <1>6, <1>8, <1>10, <2>1
<1> QED BY <1>5, <1>11 DEF out, merged, unified

-----------------------------------------------------------------------------
(* Kiro's payload: the user begins, and what follows the last turn of the   *)
(* user is left out.                                                        *)

(* The step of ensureAlternating. *)
Alternate(out, turn) ==
  (IF out # <<>> /\ Last(out).role = turn.role
   THEN Append(out, Filling(IF turn.role = "user" THEN "assistant" ELSE "user"))
   ELSE out) \o <<turn>>

Alternating == INSTANCE FoldFacts WITH Op <- Alternate

LEMMA AlternatedIs ==
  ASSUME NEW turns PROVE EnsureAlternating(turns) = Alternating!Fold(<<>>, turns)
BY DEF EnsureAlternating, FoldLeft, MapThenFoldSet, Alternating!Fold, Alternating!Largest, Max,
       Alternate

(* Turns that are apart are left as they are: ensureAlternating never fills *)
(* anything in.                                                             *)
LEMMA AlternatingSame ==
  ASSUME NEW S, NEW turns \in Seq(S), Apart(turns)
  PROVE  EnsureAlternating(turns) = turns
<1>1. PICK g : /\ g[0] = <<>>
               /\ \A i \in 1..Len(turns) : g[i] = Alternate(g[i - 1], turns[i])
               /\ g[Len(turns)] = Alternating!Fold(<<>>, turns)
  BY Alternating!FoldChain
<1> DEFINE M == {n \in Nat : n <= Len(turns) =>
                    g[n] \in Seq(S) /\ Len(g[n]) = n /\ \A i \in 1..n : g[n][i] = turns[i]}
<1>0. Len(turns) \in Nat /\ DOMAIN turns = 1..Len(turns) /\ \A i \in 1..Len(turns) : turns[i] \in S
  OBVIOUS
<1>2. 0 \in M
  <2>1. g[0] \in Seq(S) /\ Len(g[0]) = 0
    BY <1>1
  <2> QED BY <2>1
<1>3. ASSUME NEW n \in Nat, n \in M PROVE n + 1 \in M
  <2>1. CASE n + 1 <= Len(turns)
    <3> DEFINE s == g[n]
               t == turns[n + 1]
    <3>1. n + 1 \in 1..Len(turns) /\ (n + 1) - 1 = n /\ n <= Len(turns)
      BY <1>0, <2>1
    <3>2. g[n + 1] = Alternate(s, t) /\ t \in S
      BY <1>0, <1>1, <3>1
    <3>3. s \in Seq(S) /\ Len(s) = n /\ \A i \in 1..n : s[i] = turns[i]
      BY <1>3, <3>1
    <3>5. n > 0 => turns[n].role # t.role
      <4>1. n > 0 => n \in 1..(Len(turns) - 1)
        BY <1>0, <3>1
      <4> QED BY <4>1 DEF Apart
    <3> HIDE DEF s, t
    <3>4. ~(s # <<>> /\ Last(s).role = t.role)
      <4>1. CASE s # <<>>
        <5>1. Last(s) = s[n] /\ n \in Nat \ {0}
          BY <3>3, <4>1, FrontLast
        <5>2. n \in 1..n
          BY <5>1
        <5>3. Last(s) = turns[n]
          BY <3>3, <5>1, <5>2
        <5> QED BY <3>5, <5>1, <5>3
      <4> QED BY <4>1
    <3>6. g[n + 1] = s \o <<t>>
      BY <3>2, <3>4 DEF Alternate
    <3>7. s \o <<t>> = Append(s, t)
      BY <3>2, <3>3
    <3>8. /\ Append(s, t) \in Seq(S) /\ Len(Append(s, t)) = n + 1
          /\ \A i \in 1..n : Append(s, t)[i] = s[i]
          /\ Append(s, t)[n + 1] = t
      BY <3>2, <3>3, AppendFields
    <3>9. \A i \in 1..(n + 1) : Append(s, t)[i] = turns[i]
      BY <3>3, <3>8 DEF t
    <3>10. /\ g[n + 1] \in Seq(S) /\ Len(g[n + 1]) = n + 1
           /\ \A i \in 1..(n + 1) : g[n + 1][i] = turns[i]
      BY <3>6, <3>7, <3>8, <3>9
    <3> QED BY <3>10
  <2> QED BY <2>1
<1> HIDE DEF M
<1>4. Nat \subseteq M
  BY <1>2, <1>3, Induction
<1> DEFINE s == g[Len(turns)]
<1>5. s \in Seq(S) /\ Len(s) = Len(turns) /\ \A i \in 1..Len(turns) : s[i] = turns[i]
  BY <1>0, <1>4 DEF M
<1>6. EnsureAlternating(turns) = s
  BY <1>1, AlternatedIs
<1> HIDE DEF s
<1>7. s = turns
  BY <1>0, <1>5
<1> QED BY <1>6, <1>7

(* A turn of the user in front of one of the assistant, or nothing. *)
Shifted(out, turns, d) ==
  /\ d \in {0, 1} /\ Len(turns) = Len(out) + d
  /\ \A i \in 1..Len(out) : turns[i + d] = out[i]
  /\ d = 1 => turns[1] = Filling("user") /\ Len(out) > 0

LEMMA FillingType ==
  /\ Filling("user") \in TurnsOf(Seq(Blocks)) /\ Filling("user").role = "user"
  /\ WordsOf(Filling("user")) = <<>>
<1>1. Plain(0) \in Seq(TextPieces)
  BY PlainType
<1>2. Str(Plain(0)) \in Seq(Blocks) /\ VisibleText(Str(Plain(0))) = Plain(0)
  BY <1>1, StrType, VisibleStr
<1>3. Filling("user").role = "user" /\ Filling("user").content = Str(Plain(0))
  BY DEF Filling, Turn
<1>4. NilSlice \in Slices
  BY DEF NilSlice, Slices
<1>5. Filling("user") \in TurnsOf(Seq(Blocks))
  BY <1>2, <1>4 DEF Filling, Turn, TurnsOf
<1>6. WordsOf(Filling("user")) = Unfilled(Plain(0))
  BY <1>2, <1>3 DEF WordsOf
<1>7. Plain(0) = Filler
  BY DEF Filler
<1> QED BY <1>3, <1>5, <1>6, <1>7, UnfilledNothing

(* ensureFirstUser. *)
LEMMA FirstUser ==
  ASSUME NEW out \in Seq(TurnsOf(Seq(Blocks))), Apart(out)
  PROVE  LET turns == EnsureFirstUser(out)
         IN /\ turns \in Seq(TurnsOf(Seq(Blocks))) /\ Apart(turns)
            /\ Len(turns) > 0 => turns[1].role = "user"
            /\ \E d \in {0, 1} : Shifted(out, turns, d)
<1> DEFINE T == TurnsOf(Seq(Blocks))
           turns == EnsureFirstUser(out)
           x == Filling("user")
<1>1. x \in T /\ x.role = "user"
  BY FillingType
<1>2. out \in Seq(T)
  OBVIOUS
<1> HIDE DEF T, x
<1>3. /\ Len(out) \in Nat /\ DOMAIN out = 1..Len(out) /\ \A i \in 1..Len(out) : out[i] \in T
      /\ Len(out) > 0 <=> out # <<>>
  BY <1>2
<1>4. CASE out = <<>> \/ out[1].role = "user"
  <2>1. turns = out
    BY <1>4 DEF EnsureFirstUser
  <2> HIDE DEF turns
  <2>2. Shifted(out, turns, 0)
    BY <1>3, <2>1 DEF Shifted
  <2>3. Len(turns) > 0 => turns[1].role = "user"
    BY <1>3, <1>4, <2>1
  <2> QED BY <1>2, <2>1, <2>2, <2>3 DEF turns, T
<1>5. CASE ~(out = <<>> \/ out[1].role = "user")
  <2>1. turns = <<x>> \o out
    BY <1>5 DEF EnsureFirstUser, x
  <2> HIDE DEF turns
  <2> DEFINE l == Len(out)
  <2>3. /\ turns \in Seq(T) /\ Len(turns) = l + 1
        /\ turns[1] = x
        /\ \A i \in 1..l : turns[i + 1] = out[i]
    BY <1>1, <1>2, <2>1, OneBefore
  <2>4. Apart(turns)
    <3> SUFFICES ASSUME NEW i \in 1..(Len(turns) - 1) PROVE turns[i].role # turns[i + 1].role
      BY DEF Apart
    <3>0. i \in 1..l
      BY <1>3, <2>3
    <3>1. CASE i = 1
      <4>1. turns[1 + 1] = out[1]
        BY <2>3, <3>0, <3>1
      <4> QED BY <1>1, <1>5, <2>3, <3>1, <4>1
    <3>2. CASE i # 1
      <4>1. i - 1 \in 1..(l - 1) /\ i - 1 \in 1..l /\ (i - 1) + 1 = i
        BY <1>3, <3>0, <3>2
      <4>2. out[i - 1].role # out[(i - 1) + 1].role
        BY <4>1 DEF Apart
      <4>3. turns[(i - 1) + 1] = out[i - 1] /\ turns[i + 1] = out[i]
        BY <2>3, <3>0, <4>1
      <4> QED BY <4>1, <4>2, <4>3
    <3> QED BY <3>1, <3>2
  <2>5. Shifted(out, turns, 1)
    BY <1>3, <1>5, <2>3 DEF Shifted, x
  <2> QED BY <1>1, <2>3, <2>4, <2>5 DEF turns, T
<1> QED BY <1>4, <1>5

(* The filler in front says nothing. *)
LEMMA ShiftedWords ==
  ASSUME NEW out \in Seq(TurnsOf(Seq(Blocks))), NEW turns \in Seq(TurnsOf(Seq(Blocks))),
         NEW d \in {0, 1}, Shifted(out, turns, d), NEW n \in Nat, n <= Len(out)
  PROVE  UpTo(Words(turns), n + d) = UpTo(Words(out), n)
<1> DEFINE T == TurnsOf(Seq(Blocks))
<1>1. /\ Len(turns) = Len(out) + d
      /\ \A i \in 1..Len(out) : turns[i + d] = out[i]
      /\ d = 1 => turns[1] = Filling("user")
  BY DEF Shifted
<1>2. /\ Len(out) \in Nat /\ DOMAIN out = 1..Len(out) /\ \A i \in 1..Len(out) : out[i] \in T
      /\ DOMAIN turns = 1..Len(turns)
  <2> HIDE DEF T
  <2>1. out \in Seq(T) /\ turns \in Seq(T)
    BY DEF T
  <2> QED BY <2>1
<1>3. \A i \in 1..Len(out) : Words(out)[i] = WordsOf(out[i]) /\ WordsOf(out[i]) \in Seq(TextPieces)
  <2>1. \A i \in 1..Len(out) : Words(out)[i] = WordsOf(out[i])
    BY <1>2 DEF Words
  <2>2. \A i \in 1..Len(out) : WordsOf(out[i]) \in Seq(TextPieces)
    <3>1. \A t \in T : WordsOf(t) \in Seq(TextPieces)
      BY WordsType
    <3> HIDE DEF T
    <3> QED BY <1>2, <3>1
  <2> QED BY <2>1, <2>2
<1>4. \A i \in 1..Len(turns) : Words(turns)[i] = WordsOf(turns[i])
  BY <1>2 DEF Words
<1>5. CASE d = 0
  <2>1. \A i \in 1..n : Words(turns)[i] = Words(out)[i]
    <3> TAKE i \in 1..n
    <3>1. i \in 1..Len(out) /\ i + d = i /\ i \in 1..Len(turns)
      BY <1>1, <1>2, <1>5
    <3>2. turns[i] = out[i]
      BY <1>1, <3>1
    <3> QED BY <1>3, <1>4, <3>1, <3>2
  <2>2. n + d = n
    BY <1>5
  <2> QED BY <2>1, <2>2, UpToSame
<1>6. CASE d = 1
  <2> DEFINE f == Words(turns)
  <2>1. f[1] = <<>>
    <3>1. 1 \in 1..Len(turns)
      BY <1>1, <1>2, <1>6
    <3>2. f[1] = WordsOf(turns[1])
      BY <1>4, <3>1
    <3> QED BY <1>1, <1>6, <3>2, FillingType
  <2>2. \A i \in 1..n : f[i + 1] = Words(out)[i] /\ f[i + 1] \in Seq(TextPieces)
    <3> TAKE i \in 1..n
    <3>1. i \in 1..Len(out) /\ i + 1 \in 1..Len(turns) /\ i + d = i + 1
      BY <1>1, <1>2, <1>6
    <3>2. f[i + 1] = WordsOf(turns[i + 1])
      BY <1>4, <3>1
    <3>3. turns[i + 1] = out[i]
      BY <1>1, <3>1
    <3> QED BY <1>3, <3>1, <3>2, <3>3
  <2> HIDE DEF f
  <2>3. UpTo(f, n + 1) = FlattenSeq([i \in 1..n |-> f[i + 1]])
    BY <2>1, <2>2, UpToShift
  <2>4. [i \in 1..n |-> f[i + 1]] = [i \in 1..n |-> Words(out)[i]]
    BY <2>2
  <2> QED BY <1>6, <2>3, <2>4 DEF UpTo, f
<1> QED BY <1>5, <1>6

(* The last turn of the user, in both. *)
LEMMA ShiftedEnd ==
  ASSUME NEW out, NEW turns, NEW d \in {0, 1}, Shifted(out, turns, d), Len(out) \in Nat,
         NEW last \in 1..Len(turns), UserEnd(turns, Len(turns), last)
  PROVE  last - d \in 0..Len(out) /\ UserEnd(out, Len(out), last - d)
<1>1. /\ Len(turns) = Len(out) + d /\ \A i \in 1..Len(out) : turns[i + d] = out[i]
  BY DEF Shifted
<1>2. /\ last > 0 => turns[last].role = "user"
      /\ \A i \in (last + 1)..Len(turns) : turns[i].role # "user"
  BY DEF UserEnd
<1>3. last - d \in 0..Len(out)
  BY <1>1
<1>4. last - d > 0 => out[last - d].role = "user"
  <2> HAVE last - d > 0
  <2>1. last - d \in 1..Len(out) /\ (last - d) + d = last
    BY <1>3
  <2> QED BY <1>1, <1>2, <2>1
<1>5. ASSUME NEW i \in ((last - d) + 1)..Len(out) PROVE out[i].role # "user"
  <2>1. i \in 1..Len(out) /\ i + d \in (last + 1)..Len(turns)
    BY <1>1, <1>3
  <2> QED BY <1>1, <1>2, <2>1
<1> QED BY <1>3, <1>4, <1>5 DEF UserEnd

(* Turns that are apart alternate. *)
LEMMA Parity ==
  ASSUME NEW turns \in Seq(TurnsOf(Seq(Blocks))), Apart(turns),
         Len(turns) > 0 => turns[1].role = "user"
  PROVE  \A i \in 1..Len(turns) : turns[i].role = IF i % 2 = 1 THEN "user" ELSE "assistant"
<1>0. /\ Len(turns) \in Nat
      /\ \A i \in 1..Len(turns) : turns[i].role \in {"user", "assistant"}
  <2> DEFINE T == TurnsOf(Seq(Blocks))
  <2>1. \A t \in T : t.role \in {"user", "assistant"}
    BY DEF TurnsOf
  <2> HIDE DEF T
  <2>2. turns \in Seq(T)
    BY DEF T
  <2> QED BY <2>1, <2>2
<1> DEFINE M == {n \in Nat : n \in 1..Len(turns) =>
                   turns[n].role = IF n % 2 = 1 THEN "user" ELSE "assistant"}
<1>1. 0 \in M
  OBVIOUS
<1>2. ASSUME NEW n \in Nat, n \in M PROVE n + 1 \in M
  <2> SUFFICES ASSUME n + 1 \in 1..Len(turns)
               PROVE  turns[n + 1].role = IF (n + 1) % 2 = 1 THEN "user" ELSE "assistant"
    OBVIOUS
  <2>1. CASE n = 0
    BY <1>0, <2>1
  <2>2. CASE n > 0
    <3>1. n \in 1..(Len(turns) - 1) /\ n \in 1..Len(turns)
      BY <1>0, <2>2
    <3>2. turns[n].role # turns[n + 1].role
      BY <3>1 DEF Apart
    <3>3. turns[n].role = IF n % 2 = 1 THEN "user" ELSE "assistant"
      BY <1>2, <3>1
    <3>4. turns[n + 1].role \in {"user", "assistant"}
      BY <1>0
    <3>5. (n + 1) % 2 = 1 <=> n % 2 # 1
      OBVIOUS
    <3> QED BY <3>2, <3>3, <3>4, <3>5
  <2> QED BY <2>1, <2>2
<1> HIDE DEF M
<1>3. Nat \subseteq M
  BY <1>1, <1>2, Induction
<1> QED BY <1>3, <1>0 DEF M

(* What is sent of the turns: all up to the last of the user. *)
SentAs(ms, turns, sent, last) ==
  /\ last \in 1..Len(turns) /\ UserEnd(turns, Len(turns), last)
  /\ \E S : sent \in Seq(S)
  /\ Len(sent) = last + 1 /\ DOMAIN sent = 1..(last + 1)
  /\ \A i \in 1..(last - 1) : /\ sent[i + 1].role = turns[i].role
                              /\ sent[i + 1].text = VisibleText(turns[i].content)
  /\ sent[last + 1].role = "user"
  /\ LET shown == VisibleText(turns[last].content)
     IN sent[last + 1].text = IF shown = <<>> THEN Plain(0) ELSE shown
  /\ \A i \in 1..last : turns[i].role = "user" =>
       sent[i + 1].results = Cells(MergeAdjacent(ConvertToUnified(ms)).heap, turns[i].results)

LEMMA PayloadSent ==
  ASSUME NEW ms,
         NEW turns \in Seq(TurnsOf(Seq(Blocks))),
         turns = EnsureAlternating(EnsureFirstUser(MergeAdjacent(ConvertToUnified(ms)).out)),
         BuildPayload(ms) # NoPayload
  PROVE  \E last \in Nat : SentAs(ms, turns, BuildPayload(ms).history \o BuildPayload(ms).current, last)
<1> DEFINE heap == MergeAdjacent(ConvertToUnified(ms)).heap
           n == Len(turns)
           users == {i \in DOMAIN turns : turns[i].role = "user"}
           entries == [i \in DOMAIN turns |-> Entry(heap, turns[i])]
           last == CHOOSE i \in users : \A j \in users : j <= i
           system == [role |-> "system", text |-> ExtractSystemText(ms),
                      images |-> <<>>, results |-> <<>>]
           current == entries[last]
           words == IF current.text = <<>> THEN Plain(0) ELSE current.text
           final == [current EXCEPT !.text = words]
           history == <<system>> \o SubSeq(entries, 1, last - 1)
           payload1 == [history |-> history, current |-> <<final>>]
<1>1. n \in Nat /\ DOMAIN turns = 1..n
  <2> DEFINE T == TurnsOf(Seq(Blocks))
  <2> HIDE DEF T
  <2>1. turns \in Seq(T)
    BY DEF T
  <2> QED BY <2>1
<1>2. BuildPayload(ms) = IF users = {} THEN NoPayload ELSE payload1
  <2> DEFINE unsent == EnsureAlternating(EnsureFirstUser(MergeAdjacent(ConvertToUnified(ms)).out))
             Of(ts) == LET us == {i \in DOMAIN ts : ts[i].role = "user"}
                           es == [i \in DOMAIN ts |-> Entry(heap, ts[i])]
                           z == CHOOSE i \in us : \A j \in us : j <= i
                       IN IF us = {} THEN NoPayload
                          ELSE [history |-> <<system>> \o SubSeq(es, 1, z - 1),
                                current |-> <<[es[z] EXCEPT !.text =
                                                 IF @ = <<>> THEN Plain(0) ELSE @]>>]
  <2>1. BuildPayload(ms) = Of(unsent)
    BY Zenon DEF BuildPayload
  <2>2. Of(turns) = IF users = {} THEN NoPayload ELSE payload1
    BY Zenon
  <2>3. turns = unsent
    OBVIOUS
  <2> HIDE DEF Of, unsent, users, payload1
  <2> QED BY <2>1, <2>2, <2>3
<1>3. users # {} /\ BuildPayload(ms) = payload1
  <2> HIDE DEF users, payload1
  <2> QED BY <1>2
<1>4. last \in users /\ \A j \in users : j <= last
  <2>1. users \subseteq 0..n
    BY <1>1
  <2>2. Max(users) \in users /\ \A j \in users : Max(users) >= j
    BY Zenon, <1>1, <1>3, <2>1, Greatest
  <2>3. \A j \in users : j <= Max(users)
    BY <1>1, <2>1, <2>2
  <2> QED BY <2>2, <2>3
<1> HIDE DEF last
<1>5. last \in 1..n /\ turns[last].role = "user" /\ \A i \in (last + 1)..n : turns[i].role # "user"
  BY <1>1, <1>4
<1>6. UserEnd(turns, n, last)
  BY <1>1, <1>5 DEF UserEnd
<1>7. /\ DOMAIN entries = 1..n
      /\ \A i \in 1..n : /\ entries[i] = Entry(heap, turns[i])
                         /\ entries[i].role = turns[i].role
                         /\ entries[i].text = VisibleText(turns[i].content)
                         /\ turns[i].role = "user" =>
                              entries[i].results = Cells(heap, turns[i].results)
  BY <1>1 DEF Entry
<1>8. /\ final.role = "user" /\ final.text = words
      /\ final.results = Cells(heap, turns[last].results)
  <2>1. current = Entry(heap, turns[last])
    BY <1>5, <1>7
  <2>2. DOMAIN current = {"role", "text", "images", "results"}
    BY <2>1 DEF Entry
  <2>3. current.role = "user" /\ current.results = Cells(heap, turns[last].results)
    BY <1>5, <1>7
  <2> HIDE DEF current, words
  <2> QED BY <2>2, <2>3
<1>9. words = LET shown == VisibleText(turns[last].content)
              IN IF shown = <<>> THEN Plain(0) ELSE shown
  BY <1>5, <1>7
<1> DEFINE E == {system, final} \cup {entries[i] : i \in 1..n}
<1>10. entries \in Seq(E) /\ Len(entries) = n
  <2>1. entries \in [1..n -> E]
    BY <1>7
  <2> HIDE DEF entries, E
  <2> QED BY <1>1, <2>1, ListOf
<1>11. system \in E /\ final \in E
  OBVIOUS
<1> HIDE DEF E, entries, final, system, words, users
<1> DEFINE front == SubSeq(entries, 1, last - 1)
<1>12. front \in Seq(E) /\ Len(front) = last - 1 /\ \A i \in 1..(last - 1) : front[i] = entries[i]
  <2>1. last - 1 \in Nat /\ last - 1 <= Len(entries) /\ last - 1 \in Int
    BY <1>1, <1>5, <1>10
  <2>2. front \in Seq(E)
    BY <1>10, <2>1, SubSeqIn
  <2>3. Len(front) = last - 1 /\ \A i \in 1..(last - 1) : front[i] = entries[i]
    BY <1>10, <2>1
  <2> QED BY <2>2, <2>3
<1> HIDE DEF front
<1>13. /\ history \in Seq(E) /\ Len(history) = last
       /\ \A i \in 1..(last - 1) : history[i + 1] = entries[i]
  <2>1. history = <<system>> \o front
    BY DEF front
  <2> HIDE DEF history
  <2>2. /\ <<system>> \o front \in Seq(E) /\ Len(<<system>> \o front) = Len(front) + 1
        /\ \A i \in 1..Len(front) : (<<system>> \o front)[i + 1] = front[i]
    BY <1>11, <1>12, OneBefore
  <2> QED BY <1>1, <1>5, <1>12, <2>1, <2>2
<1> DEFINE sent == history \o <<final>>
<1>14. BuildPayload(ms).history \o BuildPayload(ms).current = sent
  <2> HIDE DEF history
  <2> QED BY <1>3
<1> HIDE DEF history
<1>15. sent = Append(history, final)
  BY <1>11, <1>13
<1>16. /\ sent \in Seq(E) /\ Len(sent) = last + 1 /\ DOMAIN sent = 1..(last + 1)
       /\ \A i \in 1..last : sent[i] = history[i]
       /\ sent[last + 1] = final
  BY <1>11, <1>13, <1>15, AppendFields
<1> HIDE DEF sent
<1>17. ASSUME NEW i \in 1..(last - 1)
       PROVE  sent[i + 1].role = turns[i].role /\ sent[i + 1].text = VisibleText(turns[i].content)
  <2>1. i \in 1..n /\ i + 1 \in 1..last
    BY <1>1, <1>5
  <2>2. sent[i + 1] = entries[i]
    BY <1>13, <1>16, <2>1
  <2> QED BY <1>7, <2>1, <2>2
<1>18. ASSUME NEW i \in 1..last, turns[i].role = "user"
       PROVE  sent[i + 1].results = Cells(heap, turns[i].results)
  <2>1. CASE i = last
    BY <1>8, <1>16, <2>1
  <2>2. CASE i # last
    <3>1. i \in 1..(last - 1) /\ i \in 1..n /\ i + 1 \in 1..last
      BY <1>1, <1>5, <2>2
    <3>2. sent[i + 1] = entries[i]
      BY <1>13, <1>16, <3>1
    <3> QED BY <1>7, <1>18, <3>1, <3>2
  <2> QED BY <2>1, <2>2
<1>19. SentAs(ms, turns, sent, last)
  BY <1>5, <1>6, <1>8, <1>9, <1>16, <1>17, <1>18 DEF SentAs
<1> QED BY <1>5, <1>14, <1>19

(* Contents that show the filler only if a message does. *)
Honest(ms) ==
  {c \in Seq(Blocks) : VisibleText(c) = Filler =>
                         \E m \in ToSet(ms) : VisibleText(m.content) = Filler}

LEMMA FillerIs == Filler \in Seq(TextPieces) /\ Len(Filler) = 1 /\ Filler # <<>>
<1>1. Filler \in Seq(TextPieces)
  BY PlainType DEF Filler
<1>2. Len(Filler) = 1
  BY DEF Filler, Plain
<1> QED BY <1>1, <1>2

(* Merging makes the filler of nothing else: a content that shows it is one *)
(* of the two.                                                              *)
LEMMA HonestClosed ==
  ASSUME NEW ms \in Seq(CanonicalMessages)
  PROVE  Closed(Honest(ms)) /\ \A i \in DOMAIN ms : ms[i].content \in Honest(ms)
<1>1. <<>> \in Honest(ms)
  BY VisibleNone, FillerIs DEF Honest
<1>2. ASSUME NEW a \in Honest(ms), NEW b \in Honest(ms) PROVE MergeContent(a, b) \in Honest(ms)
  <2> DEFINE s == VisibleText(a)
             t == VisibleText(b)
  <2>1. a \in Seq(Blocks) /\ b \in Seq(Blocks)
    BY DEF Honest
  <2>2. s \in Seq(TextPieces) /\ t \in Seq(TextPieces)
    BY <2>1, VisibleTextType
  <2>3. MergeContent(a, b) \in Seq(Blocks) /\ VisibleText(MergeContent(a, b)) = s \o t
    BY <2>1, MergedShows
  <2>4. CASE s = <<>>
    BY <2>4 DEF MergeContent
  <2>5. CASE s # <<>> /\ t = <<>>
    BY <2>5 DEF MergeContent
  <2>6. CASE s # <<>> /\ t # <<>>
    <3> HIDE DEF s, t
    <3>1. Len(s) \in Nat /\ Len(t) \in Nat /\ Len(s) # 0 /\ Len(t) # 0
      BY <2>2, <2>6
    <3>2. Len(s \o t) = Len(s) + Len(t)
      BY <2>2
    <3>3. Len(s \o t) # 1
      BY <3>1, <3>2
    <3>4. VisibleText(MergeContent(a, b)) # Filler
      BY <2>3, <3>3, FillerIs
    <3> QED BY <2>3, <3>4 DEF Honest
  <2> QED BY <2>4, <2>5, <2>6
<1>3. Closed(Honest(ms))
  BY <1>1, <1>2 DEF Closed, Honest
<1>4. ASSUME NEW i \in DOMAIN ms PROVE ms[i].content \in Honest(ms)
  <2>1. ms[i] \in CanonicalMessages /\ ms[i] \in ToSet(ms)
    BY DEF ToSet
  <2>2. ms[i].content \in Seq(Blocks)
    BY <2>1 DEF CanonicalMessages
  <2> QED BY <2>1, <2>2 DEF Honest
<1> QED BY <1>3, <1>4

(* All of it: the turns, and what is sent of them. *)
LEMMA PayloadBuilt ==
  ASSUME NEW ms \in Seq(CanonicalMessages), BuildPayload(ms) # NoPayload
  PROVE  \E out \in Seq(TurnsOf(Honest(ms))), turns \in Seq(TurnsOf(Seq(Blocks))),
            d \in {0, 1}, last \in Nat :
           /\ out = MergeAdjacent(ConvertToUnified(ms)).out
           /\ \A j \in 0..Len(out) : UserEnd(out, Len(out), j) =>
                \E k \in 0..Len(ms) :
                  UpTo(Words(out), j) = UpTo(Spoken(ms), k) /\ Unspoken(ms, k)
           /\ Shifted(out, turns, d) /\ Apart(turns)
           /\ Len(turns) > 0 => turns[1].role = "user"
           /\ SentAs(ms, turns, BuildPayload(ms).history \o BuildPayload(ms).current, last)
<1> DEFINE C == Honest(ms)
           T == TurnsOf(Seq(Blocks))
           out == MergeAdjacent(ConvertToUnified(ms)).out
           turns == EnsureFirstUser(out)
<1>1. Closed(C) /\ \A i \in DOMAIN ms : ms[i].content \in C
  BY HonestClosed
<1>2. /\ out \in Seq(TurnsOf(C)) /\ Apart(out)
      /\ \A j \in 0..Len(out) : UserEnd(out, Len(out), j) =>
           \E k \in 0..Len(ms) :
             UpTo(Words(out), j) = UpTo(Spoken(ms), k) /\ Unspoken(ms, k)
  <2> HIDE DEF C
  <2> QED BY <1>1, MergedOut
<1> HIDE DEF out
<1>3. out \in Seq(T)
  <2>1. TurnsOf(C) \subseteq T
    BY <1>1 DEF Closed, TurnsOf
  <2> DEFINE R == TurnsOf(C)
  <2> HIDE DEF T, R
  <2>2. out \in Seq(R) /\ R \subseteq T
    BY <1>2, <2>1 DEF R
  <2> QED BY <2>2
<1>4. /\ turns \in Seq(T) /\ Apart(turns)
      /\ Len(turns) > 0 => turns[1].role = "user"
      /\ \E d \in {0, 1} : Shifted(out, turns, d)
  BY <1>2, <1>3, FirstUser
<1>5. EnsureAlternating(turns) = turns
  <2> HIDE DEF T, turns
  <2> QED BY <1>4, AlternatingSame
<1> HIDE DEF turns
<1>6. \E last \in Nat : SentAs(ms, turns, BuildPayload(ms).history \o BuildPayload(ms).current, last)
  <2>1. turns = EnsureAlternating(EnsureFirstUser(MergeAdjacent(ConvertToUnified(ms)).out))
    BY <1>5 DEF turns, out
  <2> QED BY <1>4, <2>1, PayloadSent
<1> QED BY <1>2, <1>4, <1>6 DEF out

LEMMA SentAlternates ==
  ASSUME NEW ms \in Seq(CanonicalMessages), BuildPayload(ms) # NoPayload,
         NEW sent, sent = BuildPayload(ms).history \o BuildPayload(ms).current
  PROVE  /\ \A i \in 2..Len(sent) : sent[i].role = IF i % 2 = 0 THEN "user" ELSE "assistant"
         /\ \A i \in 3..(Len(sent) - 1) : sent[i].text = Filler =>
              \E m \in ToSet(ms) : VisibleText(m.content) = Filler
         /\ Last(sent).role = "user"
<1>1. PICK out \in Seq(TurnsOf(Honest(ms))), turns \in Seq(TurnsOf(Seq(Blocks))),
           d \in {0, 1}, last \in Nat :
        /\ Shifted(out, turns, d) /\ Apart(turns)
        /\ Len(turns) > 0 => turns[1].role = "user"
        /\ SentAs(ms, turns, sent, last)
  BY PayloadBuilt
<1>2. /\ last \in 1..Len(turns) /\ UserEnd(turns, Len(turns), last)
      /\ Len(sent) = last + 1
      /\ \A i \in 1..(last - 1) : /\ sent[i + 1].role = turns[i].role
                                  /\ sent[i + 1].text = VisibleText(turns[i].content)
      /\ sent[last + 1].role = "user"
  BY <1>1 DEF SentAs
<1>3. \A i \in 1..Len(turns) : turns[i].role = IF i % 2 = 1 THEN "user" ELSE "assistant"
  BY <1>1, Parity
<1>4. turns[last].role = "user"
  BY <1>2 DEF UserEnd
<1>5. /\ Len(turns) = Len(out) + d /\ Len(out) \in Nat
      /\ \A i \in 1..Len(out) : turns[i + d] = out[i]
      /\ \A i \in 1..Len(out) : out[i].content \in Honest(ms)
  <2>1. Len(turns) = Len(out) + d /\ \A i \in 1..Len(out) : turns[i + d] = out[i]
    BY <1>1 DEF Shifted
  <2> DEFINE T == TurnsOf(Honest(ms))
  <2>2. \A t \in T : t.content \in Honest(ms)
    BY DEF TurnsOf
  <2> HIDE DEF T
  <2>3. out \in Seq(T)
    BY DEF T
  <2> QED BY <2>1, <2>2, <2>3
<1>6. ASSUME NEW i \in 2..Len(sent)
      PROVE  sent[i].role = IF i % 2 = 0 THEN "user" ELSE "assistant"
  <2>1. CASE i = last + 1
    <3>1. last % 2 = 1
      BY <1>2, <1>3, <1>4
    <3>2. (last + 1) % 2 = 0
      BY <3>1
    <3> QED BY <1>2, <2>1, <3>2
  <2>2. CASE i # last + 1
    <3>1. i - 1 \in 1..(last - 1) /\ i - 1 \in 1..Len(turns) /\ (i - 1) + 1 = i /\ i \in Nat
      BY <1>2, <1>5, <2>2
    <3>2. sent[i].role = turns[i - 1].role
      BY <1>2, <3>1
    <3>3. (i - 1) % 2 = 1 <=> i % 2 = 0
      BY <3>1
    <3> QED BY <1>3, <3>1, <3>2, <3>3
  <2> QED BY <2>1, <2>2
<1>7. ASSUME NEW i \in 3..(Len(sent) - 1), sent[i].text = Filler
      PROVE  \E m \in ToSet(ms) : VisibleText(m.content) = Filler
  <2>1. i - 1 \in 1..(last - 1) /\ (i - 1) + 1 = i /\ i \in Nat
    BY <1>2
  <2>2. sent[i].text = VisibleText(turns[i - 1].content)
    BY <1>2, <2>1
  <2> DEFINE j == (i - 1) - d
  <2>3. j \in 1..Len(out) /\ j + d = i - 1
    BY <1>2, <1>5, <2>1
  <2>4. turns[i - 1] = out[j] /\ out[j].content \in Honest(ms)
    BY <1>5, <2>3
  <2> QED BY <1>7, <2>2, <2>4 DEF Honest
<1>8. Last(sent).role = "user"
  BY <1>2 DEF Last
<1> QED BY <1>6, <1>7, <1>8

LEMMA SpokenFirst ==
  ASSUME NEW ms \in Seq(CanonicalMessages), NEW k \in 0..Len(ms)
  PROVE  SpokenBy(SubSeq(ms, 1, k), {"user", "assistant"}) = UpTo(Spoken(ms), k)
<1> DEFINE p == SubSeq(ms, 1, k)
           w(m) == IF m.role \in {"user", "assistant"} THEN Unfilled(VisibleText(m.content)) ELSE <<>>
<1>1. Len(ms) \in Nat /\ k \in Nat /\ k <= Len(ms) /\ DOMAIN ms = 1..Len(ms)
  OBVIOUS
<1>2. DOMAIN p = 1..k /\ \A i \in 1..k : p[i] = ms[i]
  <2>1. /\ DOMAIN p = 1..((k - 1) + 1) /\ \A i \in 1..((k - 1) + 1) : p[i] = ms[(i + 1) - 1]
    BY <1>1, PartOf
  <2>2. (k - 1) + 1 = k /\ \A i \in 1..k : (i + 1) - 1 = i
    BY <1>1
  <2> HIDE DEF p
  <2> QED BY <2>1, <2>2
<1> HIDE DEF p
<1>3. \A i \in 1..k : Spoken(ms)[i] = w(ms[i])
  <2>1. \A i \in 1..k : i \in DOMAIN ms
    BY <1>1
  <2> QED BY <2>1 DEF Spoken, SaidBy
<1>4. [i \in DOMAIN p |-> w(p[i])] = [i \in 1..k |-> Spoken(ms)[i]]
  <2> HIDE DEF w
  <2> QED BY <1>2, <1>3
<1>5. SpokenBy(p, {"user", "assistant"}) = FlattenSeq([i \in DOMAIN p |-> w(p[i])])
  BY DEF SpokenBy
<1> HIDE DEF w
<1> QED BY <1>4, <1>5 DEF UpTo, p

LEMMA SpokenLast ==
  ASSUME NEW ms \in Seq(CanonicalMessages), NEW k \in 0..Len(ms), Unspoken(ms, k)
  PROVE  SpokenBy(SubSeq(ms, k + 1, Len(ms)), {"user"}) = <<>>
<1> DEFINE p == SubSeq(ms, k + 1, Len(ms))
           l == Len(ms)
           ss == [i \in DOMAIN p |-> IF p[i].role \in {"user"} THEN Unfilled(VisibleText(p[i].content)) ELSE <<>>]
<1>1. l \in Nat /\ k \in Nat /\ k <= l
  OBVIOUS
<1>2. /\ p \in Seq(CanonicalMessages) /\ DOMAIN p = 1..(l - k)
      /\ \A i \in 1..(l - k) : p[i] = ms[i + k]
  <2>1. /\ p \in Seq(CanonicalMessages)
        /\ DOMAIN p = 1..((l - (k + 1)) + 1)
        /\ \A i \in 1..((l - (k + 1)) + 1) : p[i] = ms[(i + (k + 1)) - 1]
    BY <1>1, PartOf
  <2> HIDE DEF p, l
  <2>2. (l - (k + 1)) + 1 = l - k /\ \A i \in 1..(l - k) : (i + (k + 1)) - 1 = i + k
    BY <1>1
  <2> QED BY <2>1, <2>2
<1>3. SpokenBy(p, {"user"}) = FlattenSeq(ss)
  BY DEF SpokenBy
<1> HIDE DEF p
<1>4. \A i \in DOMAIN p : p[i].role # "user"
  <2> TAKE i \in DOMAIN p
  <2>1. p[i] = ms[i + k] /\ i + k \in (k + 1)..l
    BY <1>1, <1>2
  <2> QED BY <2>1 DEF Unspoken
<1>5. DOMAIN ss = DOMAIN p /\ \A i \in DOMAIN ss : ss[i] = <<>>
  BY <1>4
<1>6. ss \in Seq(Seq({}))
  <2>1. ss \in [1..(l - k) -> Seq({})]
    BY <1>2, <1>4
  <2> DEFINE T == Seq({})
             n == l - k
  <2>2. n \in Nat /\ ss \in [1..n -> T]
    BY <1>1, <2>1
  <2> HIDE DEF T, n, ss
  <2>3. ss \in Seq(T)
    BY <2>2, ListOf
  <2> QED BY <2>3 DEF T
<1> HIDE DEF ss
<1> QED BY <1>3, <1>5, <1>6, FlattenBlank DEF p

LEMMA SentSays ==
  ASSUME NEW ms, NEW turns \in Seq(TurnsOf(Seq(Blocks))), NEW sent, NEW last \in Nat, SentAs(ms, turns, sent, last)
  PROVE  SaidInTurns(Tail(sent)) = UpTo(Words(turns), last)
<1> DEFINE p == Tail(sent)
           f == Words(turns)
<1>1. /\ last \in 1..Len(turns) /\ Len(sent) = last + 1
      /\ \A i \in 1..(last - 1) : sent[i + 1].text = VisibleText(turns[i].content)
      /\ LET shown == VisibleText(turns[last].content)
         IN sent[last + 1].text = IF shown = <<>> THEN Plain(0) ELSE shown
  BY DEF SentAs
<1>2. DOMAIN p = 1..last /\ \A i \in 1..last : p[i] = sent[i + 1]
  <2>1. PICK S : sent \in Seq(S)
    BY DEF SentAs
  <2> QED BY <1>1, <2>1
<1> HIDE DEF p
<1>3. DOMAIN turns = 1..Len(turns) /\ Len(turns) \in Nat
  <2> DEFINE T == TurnsOf(Seq(Blocks))
  <2> HIDE DEF T
  <2>1. turns \in Seq(T)
    BY DEF T
  <2> QED BY <2>1
<1>4. \A i \in 1..last : f[i] = Unfilled(VisibleText(turns[i].content))
  <2>1. \A i \in 1..last : i \in DOMAIN turns
    BY <1>1, <1>3
  <2> QED BY <2>1 DEF Words, WordsOf
<1> HIDE DEF f
<1>5. ASSUME NEW i \in 1..last PROVE Unfilled(p[i].text) = f[i]
  <2>0. f[i] = Unfilled(VisibleText(turns[i].content)) /\ p[i] = sent[i + 1]
    BY <1>2, <1>4
  <2>1. CASE i = last
    <3> DEFINE shown == VisibleText(turns[last].content)
    <3>1. sent[last + 1].text = IF shown = <<>> THEN Plain(0) ELSE shown
      BY <1>1
    <3> HIDE DEF shown
    <3>2. CASE shown = <<>>
      <4>1. Unfilled(Plain(0)) = <<>> /\ Unfilled(shown) = <<>>
        BY <3>2, UnfilledNothing DEF Filler
      <4> QED BY <2>0, <2>1, <3>1, <3>2, <4>1 DEF shown
    <3>3. CASE shown # <<>>
      BY <2>0, <2>1, <3>1, <3>3 DEF shown
    <3> QED BY <3>2, <3>3
  <2>2. CASE i # last
    <3>1. i \in 1..(last - 1)
      BY <2>2
    <3> QED BY <1>1, <2>0, <3>1
  <2> QED BY <2>1, <2>2
<1>6. [i \in DOMAIN p |-> Unfilled(p[i].text)] = [i \in 1..last |-> f[i]]
  BY <1>2, <1>5
<1> QED BY <1>6 DEF SaidInTurns, UpTo, p, f

LEMMA SentInOrder ==
  ASSUME NEW ms \in Seq(CanonicalMessages), BuildPayload(ms) # NoPayload,
         NEW sent, sent = BuildPayload(ms).history \o BuildPayload(ms).current
  PROVE  \E k \in 0..Len(ms) :
           /\ SaidInTurns(Tail(sent)) = SpokenBy(SubSeq(ms, 1, k), {"user", "assistant"})
           /\ SpokenBy(SubSeq(ms, k + 1, Len(ms)), {"user"}) = <<>>
<1> DEFINE T == TurnsOf(Seq(Blocks))
<1>1. PICK out \in Seq(TurnsOf(Honest(ms))), turns \in Seq(TurnsOf(Seq(Blocks))),
           d \in {0, 1}, last \in Nat :
        /\ \A j \in 0..Len(out) : UserEnd(out, Len(out), j) =>
             \E k \in 0..Len(ms) :
               UpTo(Words(out), j) = UpTo(Spoken(ms), k) /\ Unspoken(ms, k)
        /\ Shifted(out, turns, d) /\ SentAs(ms, turns, sent, last)
  BY PayloadBuilt
<1>2. out \in Seq(T)
  <2> DEFINE R == TurnsOf(Honest(ms))
  <2>1. R \subseteq T
    BY DEF TurnsOf, Honest
  <2> HIDE DEF T, R
  <2>2. out \in Seq(R)
    BY DEF R
  <2> QED BY <2>1, <2>2
<1>3. Len(out) \in Nat
  <2> HIDE DEF T
  <2> QED BY <1>2
<1>4. last \in 1..Len(turns) /\ UserEnd(turns, Len(turns), last)
  BY <1>1 DEF SentAs
<1> DEFINE j == last - d
<1>5. j \in 0..Len(out) /\ UserEnd(out, Len(out), j)
  BY <1>1, <1>3, <1>4, ShiftedEnd
<1>6. PICK k \in 0..Len(ms) : UpTo(Words(out), j) = UpTo(Spoken(ms), k) /\ Unspoken(ms, k)
  BY <1>1, <1>5
<1>7. j \in Nat /\ j <= Len(out) /\ j + d = last
  BY <1>3, <1>5
<1> HIDE DEF j
<1>8. UpTo(Words(turns), last) = UpTo(Words(out), j)
  <2>1. UpTo(Words(turns), j + d) = UpTo(Words(out), j)
    BY <1>1, <1>2, <1>7, ShiftedWords
  <2> QED BY <1>7, <2>1
<1>9. SaidInTurns(Tail(sent)) = UpTo(Spoken(ms), k)
  BY <1>1, <1>6, <1>8, SentSays
<1> QED BY <1>6, <1>9, SpokenFirst, SpokenLast

-----------------------------------------------------------------------------
(* Kiro's payload: the results of the tools.  Two slices of one array could *)
(* overwrite each other's results: no array is read through two of them,    *)
(* from the messages to the merged turns.                                   *)

(* The result a tool message brings. *)
Result(m) == [id |-> m.answers, text |-> VisibleText(m.content)]

(* The arrays of a turn, or of what waits to become one. *)
Arrays(t) == {t.images.at, t.results.at} \ {0}

OwnArrays(t) == t.images.at = t.results.at => t.images.at = 0

(* No array is read through two slices. *)
Distinct(out) ==
  /\ \A i \in DOMAIN out : OwnArrays(out[i])
  /\ \A i \in DOMAIN out, j \in DOMAIN out : i # j => Arrays(out[i]) \cap Arrays(out[j]) = {}

(* A turn of the user brings x. *)
Holds(heap, out, x) ==
  \E i \in DOMAIN out : out[i].role = "user" /\ x \in ToSet(Cells(heap, out[i].results))

LEMMA ArraysWithin ==
  ASSUME NEW heap \in Heaps, NEW t, Within(heap, t.images), Within(heap, t.results)
  PROVE  \A a \in Arrays(t) : a \in Nat /\ a \in DOMAIN heap /\ a <= Len(heap) /\ a # 0
<1>1. DOMAIN heap = 1..Len(heap) /\ Len(heap) \in Nat
  BY DEF Heaps
<1> QED BY <1>1 DEF Arrays, Within

LEMMA DistinctGrows ==
  ASSUME NEW S, NEW out \in Seq(S), Distinct(out), NEW t \in S, OwnArrays(t),
         \A i \in DOMAIN out : Arrays(out[i]) \cap Arrays(t) = {}
  PROVE  Distinct(Append(out, t))
<1> DEFINE next == Append(out, t)
<1>1. /\ Len(next) = Len(out) + 1 /\ Len(out) \in Nat /\ DOMAIN out = 1..Len(out)
      /\ DOMAIN next = 1..(Len(out) + 1)
      /\ \A i \in 1..Len(out) : next[i] = out[i]
      /\ next[Len(out) + 1] = t
  BY AppendFields
<1> HIDE DEF next
<1>2. \A i \in DOMAIN next : (i \in DOMAIN out /\ next[i] = out[i]) \/ (i = Len(out) + 1 /\ next[i] = t)
  BY <1>1
<1>3. \A i \in DOMAIN next : OwnArrays(next[i])
  BY <1>2 DEF Distinct
<1>4. ASSUME NEW i \in DOMAIN next, NEW j \in DOMAIN next, i # j
      PROVE  Arrays(next[i]) \cap Arrays(next[j]) = {}
  <2>1. CASE i \in DOMAIN out /\ next[i] = out[i] /\ j \in DOMAIN out /\ next[j] = out[j]
    BY <1>4, <2>1 DEF Distinct
  <2>2. CASE i \in DOMAIN out /\ next[i] = out[i] /\ next[j] = t
    BY <2>2
  <2>3. CASE j \in DOMAIN out /\ next[j] = out[j] /\ next[i] = t
    <3>1. Arrays(out[j]) \cap Arrays(t) = {}
      BY <2>3
    <3> QED BY <2>3, <3>1
  <2> QED BY <1>2, <1>4, <2>1, <2>2, <2>3
<1> QED BY <1>3, <1>4 DEF Distinct, next

(* Without the last turn. *)
LEMMA DistinctFront ==
  ASSUME NEW S, NEW out \in Seq(S), Distinct(out), out # <<>>
  PROVE  /\ Distinct(Front(out)) /\ OwnArrays(Last(out))
         /\ \A i \in DOMAIN Front(out) : Arrays(Front(out)[i]) \cap Arrays(Last(out)) = {}
<1> DEFINE f == Front(out)
           x == Last(out)
<1>1. /\ f \in Seq(S) /\ Len(out) \in Nat \ {0} /\ Len(f) = Len(out) - 1
      /\ x = out[Len(out)] /\ \A i \in 1..(Len(out) - 1) : f[i] = out[i]
  BY FrontLast
<1> HIDE DEF f, x
<1>2. DOMAIN out = 1..Len(out) /\ DOMAIN f = 1..(Len(out) - 1)
  BY <1>1
<1>3. \A i \in DOMAIN f : i \in DOMAIN out /\ i # Len(out) /\ f[i] = out[i]
  BY <1>1, <1>2
<1>4. Len(out) \in DOMAIN out
  BY <1>1, <1>2
<1>5. Distinct(f)
  BY <1>3 DEF Distinct
<1>6. OwnArrays(x)
  BY <1>1, <1>4 DEF Distinct
<1>7. \A i \in DOMAIN f : Arrays(f[i]) \cap Arrays(x) = {}
  BY <1>1, <1>3, <1>4 DEF Distinct
<1> QED BY <1>5, <1>6, <1>7 DEF f, x

(* What the turns hold stays while their arrays do, and one more turn adds  *)
(* what it holds.                                                           *)
LEMMA HoldsStill ==
  ASSUME NEW h1, NEW h2, NEW out, NEW x, Holds(h1, out, x),
         \A i \in DOMAIN out : out[i].results.at # 0 =>
           h2[out[i].results.at] = h1[out[i].results.at]
  PROVE  Holds(h2, out, x)
<1>1. \A i \in DOMAIN out : Cells(h2, out[i].results) = Cells(h1, out[i].results)
  BY CellsSame
<1> QED BY <1>1 DEF Holds

LEMMA HoldsMore ==
  ASSUME NEW S, NEW out \in Seq(S), NEW t \in S, NEW h, NEW x
  PROVE  /\ Holds(h, out, x) => Holds(h, Append(out, t), x)
         /\ t.role = "user" /\ x \in ToSet(Cells(h, t.results)) => Holds(h, Append(out, t), x)
<1> DEFINE next == Append(out, t)
<1>1. /\ Len(next) = Len(out) + 1 /\ Len(out) \in Nat /\ DOMAIN out = 1..Len(out)
      /\ DOMAIN next = 1..(Len(out) + 1)
      /\ \A i \in 1..Len(out) : next[i] = out[i]
      /\ next[Len(out) + 1] = t
  BY AppendFields
<1> HIDE DEF next
<1>2. /\ \A i \in DOMAIN out : i \in DOMAIN next /\ next[i] = out[i]
      /\ Len(out) + 1 \in DOMAIN next
  BY <1>1
<1>3. Holds(h, out, x) => Holds(h, next, x)
  BY <1>2 DEF Holds
<1>4. t.role = "user" /\ x \in ToSet(Cells(h, t.results)) => Holds(h, next, x)
  BY <1>1, <1>2 DEF Holds
<1> QED BY <1>3, <1>4 DEF next

(* Two slices are appended to, one after the other: both are extended, and  *)
(* no third is disturbed.                                                   *)
BothExtended(heap, s1, s2, xs, ys) ==
  LET a == GoAppend(heap, s1, xs)
      b == GoAppend(a.heap, s2, ys)
  IN /\ Wider(heap, b.heap) /\ b.heap \in Heaps
     /\ Within(b.heap, a.slice) /\ Within(b.heap, b.slice)
     /\ a.slice.at = b.slice.at => a.slice.at = 0
     /\ a.slice.at = s1.at \/ a.slice.at > Len(heap)
     /\ b.slice.at = s2.at \/ b.slice.at > Len(heap)
     /\ Cells(b.heap, a.slice) = Cells(heap, s1) \o xs
     /\ Cells(b.heap, b.slice) = Cells(heap, s2) \o ys
     /\ \A i \in DOMAIN heap : i # s1.at /\ i # s2.at => b.heap[i] = heap[i]

(* So they are when they share no array. *)
LEMMA TwoAppends ==
  ASSUME NEW heap \in Heaps, NEW s1, NEW s2, Within(heap, s1), Within(heap, s2),
         s1.at = s2.at => s1.at = 0, NEW xs \in Seq(Held), NEW ys \in Seq(Held)
  PROVE  BothExtended(heap, s1, s2, xs, ys)
<1> DEFINE a == GoAppend(heap, s1, xs)
           h == a.heap
           r == a.slice
           b == GoAppend(h, s2, ys)
           k == b.heap
           p == b.slice
<1>1. /\ Wider(heap, h) /\ h \in Heaps /\ Within(h, r)
      /\ Cells(h, r) = Cells(heap, s1) \o xs
      /\ r.at \in {s1.at, Len(heap) + 1}
      /\ \A i \in DOMAIN heap : i # s1.at => h[i] = heap[i]
  BY GoAppendAdds
<1> HIDE DEF a
<1>2. Within(h, s2)
  BY <1>1, WithinWider
<1>3. /\ Wider(h, k) /\ k \in Heaps /\ Within(k, p)
      /\ Cells(k, p) = Cells(h, s2) \o ys
      /\ p.at \in {s2.at, Len(h) + 1}
      /\ \A i \in DOMAIN h : i # s2.at => k[i] = h[i]
  BY <1>1, <1>2, GoAppendAdds
<1> HIDE DEF b, h, r, k, p
<1>4. /\ Len(heap) \in Nat /\ Len(h) \in Nat /\ Len(heap) <= Len(h)
      /\ DOMAIN heap = 1..Len(heap) /\ DOMAIN h = 1..Len(h)
  BY <1>1 DEF Wider, Heaps
<1>5. /\ s1.at \in 0..Len(heap) /\ s2.at \in 0..Len(heap) /\ r.at \in 0..Len(h)
  BY <1>1, <1>4 DEF Within
<1>6. r.at = p.at => r.at = 0
  BY <1>1, <1>3, <1>4, <1>5
<1>7. (r.at = s1.at \/ r.at > Len(heap)) /\ (p.at = s2.at \/ p.at > Len(heap))
  BY <1>1, <1>3, <1>4
<1>8. Cells(k, r) = Cells(h, r)
  <2>1. r.at # 0 => r.at \in DOMAIN h /\ r.at # s2.at
    BY <1>1, <1>4, <1>5
  <2> QED BY <1>3, <2>1, CellsSame
<1>9. Cells(h, s2) = Cells(heap, s2)
  <2>1. s2.at # 0 => s2.at \in DOMAIN heap /\ s2.at # s1.at
    BY <1>4, <1>5
  <2> QED BY <1>1, <2>1, CellsSame
<1>10. \A i \in DOMAIN heap : i # s1.at /\ i # s2.at => k[i] = heap[i]
  <2>1. \A i \in DOMAIN heap : i \in DOMAIN h
    BY <1>4
  <2> QED BY <1>1, <1>3, <2>1
<1>11. Wider(heap, k) /\ Within(k, r)
  BY <1>1, <1>3, WiderThen, WithinWider
<1> QED BY <1>1, <1>3, <1>6, <1>7, <1>8, <1>9, <1>10, <1>11 DEF BothExtended, a, b, h, k, r, p

(* Two new slices have new arrays. *)
LEMMA TwoSlices ==
  ASSUME NEW heap \in Heaps, NEW xs \in Seq(Held), NEW ys \in Seq(Held)
  PROVE  LET a == NewSlice(heap, xs)
             b == NewSlice(a.heap, ys)
         IN /\ Wider(heap, b.heap) /\ b.heap \in Heaps
            /\ Within(b.heap, a.slice) /\ Within(b.heap, b.slice)
            /\ a.slice.at = b.slice.at => a.slice.at = 0
            /\ a.slice.at = 0 \/ a.slice.at > Len(heap)
            /\ b.slice.at = 0 \/ b.slice.at > Len(heap)
            /\ \A i \in DOMAIN heap : b.heap[i] = heap[i]
<1> DEFINE a == NewSlice(heap, xs)
           h == a.heap
           r == a.slice
           b == NewSlice(h, ys)
           k == b.heap
           p == b.slice
<1>1. /\ Wider(heap, h) /\ h \in Heaps /\ Within(h, r)
      /\ r.at \in {0, Len(heap) + 1}
      /\ \A i \in DOMAIN heap : h[i] = heap[i]
  BY NewSliceMakes
<1> HIDE DEF a
<1>2. /\ Wider(h, k) /\ k \in Heaps /\ Within(k, p)
      /\ p.at \in {0, Len(h) + 1}
      /\ \A i \in DOMAIN h : k[i] = h[i]
  BY <1>1, NewSliceMakes
<1> HIDE DEF b, h, r, k, p
<1>3. /\ Len(heap) \in Nat /\ Len(h) \in Nat /\ Len(heap) <= Len(h)
      /\ DOMAIN heap = 1..Len(heap) /\ DOMAIN h = 1..Len(h)
  BY <1>1 DEF Wider, Heaps
<1>4. r.at \in 0..Len(h)
  BY <1>1, <1>3 DEF Within
<1>5. r.at = p.at => r.at = 0
  BY <1>2, <1>3, <1>4
<1>6. (r.at = 0 \/ r.at > Len(heap)) /\ (p.at = 0 \/ p.at > Len(heap))
  BY <1>1, <1>2, <1>3
<1>7. \A i \in DOMAIN heap : k[i] = heap[i]
  <2>1. \A i \in DOMAIN heap : i \in DOMAIN h
    BY <1>3
  <2> QED BY <1>1, <1>2, <2>1
<1>8. Wider(heap, k) /\ Within(k, r)
  BY <1>1, <1>2, WiderThen, WithinWider
<1> QED BY <1>2, <1>5, <1>6, <1>7, <1>8 DEF a, b, h, k, r, p

(* Slices appended to, or new, share no array with any they did not share   *)
(* one with before.                                                         *)
LEMMA StillApart ==
  ASSUME NEW heap \in Heaps, NEW t, Within(heap, t.images), Within(heap, t.results),
         NEW u, NEW v, Arrays(t) \cap Arrays(u) = {},
         v.images.at \in {0, u.images.at} \/ v.images.at > Len(heap),
         v.results.at \in {0, u.results.at} \/ v.results.at > Len(heap)
  PROVE  Arrays(t) \cap Arrays(v) = {}
<1>1. ASSUME NEW a \in Arrays(t), a \in Arrays(v) PROVE FALSE
  <2>1. a \in Nat /\ a <= Len(heap) /\ a # 0 /\ Len(heap) \in Nat
    BY ArraysWithin DEF Heaps
  <2>2. a = v.images.at \/ a = v.results.at
    BY <1>1 DEF Arrays
  <2>3. a \in {u.images.at, u.results.at}
    BY <2>1, <2>2
  <2>4. a \in Arrays(u)
    BY <2>1, <2>3 DEF Arrays
  <2> QED BY <2>4
<1> QED BY <1>1

(* No tool was used, or the results wait, in arrays of their own. *)
Waiting(acc, ms, n) ==
  /\ OwnArrays(acc)
  /\ \A i \in DOMAIN acc.out : Arrays(acc.out[i]) \cap Arrays(acc) = {}
  /\ \A k \in 1..n : ms[k].role = "tool" => Result(ms[k]) \in ToSet(Cells(acc.heap, acc.results))
  /\ (\A k \in 1..n : ms[k].role # "tool") => acc.results.len = 0 /\ acc.images.len = 0

(* The results are with a turn, and no other will come. *)
RoundOver(acc, ms, n) ==
  /\ acc.results.len = 0 /\ acc.images.len = 0
  /\ \A k \in 1..n : ms[k].role = "tool" => Holds(acc.heap, acc.out, Result(ms[k]))
  /\ \A k \in (n + 1)..Len(ms) : ms[k].role # "tool"

InRound(acc, ms, n) ==
  Distinct(acc.out) /\ (Waiting(acc, ms, n) \/ RoundOver(acc, ms, n))

LEMMA EmptyCells ==
  ASSUME NEW heap \in Heaps, NEW s, Within(heap, s), s.len = 0
  PROVE  ToSet(Cells(heap, s)) = {}
<1> DEFINE cells == Cells(heap, s)
<1>1. cells \in Seq(Held) /\ Len(cells) = 0
  BY CellsType
<1> HIDE DEF cells
<1>2. DOMAIN cells = {}
  BY <1>1
<1> QED BY <1>2 DEF ToSet, cells

(* flush: what waits goes with a turn of the user. *)
LEMMA RoundFlushed ==
  ASSUME NEW C, <<>> \in C, NEW acc \in Gathering(C), NEW ms, NEW n \in Nat, Distinct(acc.out),
         Waiting(acc, ms, n)
  PROVE  \/ Flush(acc) = acc /\ \A k \in 1..n : ms[k].role # "tool"
         \/ /\ Distinct(Flush(acc).out) /\ \E k \in 1..n : ms[k].role = "tool"
            /\ Flush(acc).results.len = 0 /\ Flush(acc).images.len = 0
            /\ \A k \in 1..n : ms[k].role = "tool" =>
                 Holds(Flush(acc).heap, Flush(acc).out, Result(ms[k]))
<1>0. /\ acc.heap \in Heaps /\ acc.results \in Slices /\ acc.images \in Slices
      /\ acc.out \in Seq(TurnsOf(C))
      /\ Within(acc.heap, acc.results) /\ Within(acc.heap, acc.images)
  BY GatheringFields
<1>1. CASE acc.results.len = 0 /\ acc.images.len = 0
  <2>1. Flush(acc) = acc
    BY <1>1 DEF Flush
  <2>2. ToSet(Cells(acc.heap, acc.results)) = {}
    BY <1>0, <1>1, EmptyCells
  <2> QED BY <2>1, <2>2 DEF Waiting
<1>2. CASE ~(acc.results.len = 0 /\ acc.images.len = 0)
  <2> DEFINE S == TurnsOf(C)
             t == Turn("user", <<>>, acc.images, acc.results)
             out == Append(acc.out, t)
             results == [acc.results EXCEPT !.len = 0]
             images == [acc.images EXCEPT !.len = 0]
             next == [acc EXCEPT !.out = out, !.results = results, !.images = images]
  <2>1. /\ t \in S /\ t.role = "user" /\ t.images = acc.images /\ t.results = acc.results
    BY <1>0 DEF Turn, TurnsOf
  <2>2. Flush(acc) = next
    BY <1>2 DEF Flush
  <2>3. results.len = 0 /\ images.len = 0
    BY <1>0 DEF Slices
  <2> HIDE DEF results, images, t, S
  <2>4. acc.out \in Seq(S)
    BY <1>0 DEF S
  <2>5. OwnArrays(t) /\ Arrays(t) = Arrays(acc)
    BY <2>1 DEF Waiting, OwnArrays, Arrays
  <2>6. Distinct(out)
    <3>1. \A i \in DOMAIN acc.out : Arrays(acc.out[i]) \cap Arrays(t) = {}
      BY <2>5 DEF Waiting
    <3> QED BY <2>1, <2>4, <2>5, <3>1, DistinctGrows
  <2>7. \A k \in 1..n : ms[k].role = "tool" => Holds(acc.heap, out, Result(ms[k]))
    <3> TAKE k \in 1..n
    <3> HAVE ms[k].role = "tool"
    <3> DEFINE x == Result(ms[k])
    <3>1. x \in ToSet(Cells(acc.heap, t.results))
      BY <2>1 DEF Waiting
    <3> HIDE DEF x
    <3>2. Holds(acc.heap, out, x)
      BY <2>1, <2>4, <3>1, HoldsMore
    <3> QED BY <3>2 DEF x
  <2>8. \E k \in 1..n : ms[k].role = "tool"
    BY <1>2 DEF Waiting
  <2> HIDE DEF out
  <2>9. next.out = out /\ next.heap = acc.heap /\ next.results = results /\ next.images = images
    <3>1. acc \in [heap : Heaps, results : Slices, images : Slices, out : Seq(S)]
      BY DEF Gathering, S
    <3> QED BY <3>1
  <2> HIDE DEF next
  <2> QED BY <2>2, <2>3, <2>6, <2>7, <2>8, <2>9
<1> QED BY <1>1, <1>2

(* A tool message: its result waits with the others. *)
LEMMA RoundGathers ==
  ASSUME NEW C, NEW acc \in Gathering(C), NEW ms \in Seq(CanonicalMessages), NEW n \in Nat,
         n + 1 <= Len(ms), ms[n + 1].role = "tool", ms[n + 1].answers # NoId,
         Distinct(acc.out), Waiting(acc, ms, n)
  PROVE  Distinct(Gather(acc, ms[n + 1]).out) /\ Waiting(Gather(acc, ms[n + 1]), ms, n + 1)
<1> DEFINE m == ms[n + 1]
           H == acc.heap
           xs == ExtractToolResults(m)
           ys == ExtractImages(m)
           a == GoAppend(H, acc.results, xs)
           b == GoAppend(a.heap, acc.images, ys)
           h == b.heap
           r == a.slice
           p == b.slice
           next == [acc EXCEPT !.heap = h, !.results = r, !.images = p]
<1>0. /\ H \in Heaps /\ acc.results \in Slices /\ acc.images \in Slices
      /\ acc.out \in Seq(TurnsOf(C))
      /\ Within(H, acc.results) /\ Within(H, acc.images)
      /\ \A i \in DOMAIN acc.out : acc.out[i] \in TurnsIn(H, C)
  BY GatheringFields
<1>1. Gather(acc, m) = next
  BY DEF Gather
<1>2. m \in CanonicalMessages
  <2>1. n + 1 \in DOMAIN ms
    OBVIOUS
  <2> QED BY <2>1
<1>3. xs \in Seq(Held) /\ ys \in Seq(Held) /\ Result(m) \in ToSet(xs)
  <2> HIDE DEF m
  <2>1. m.role = "tool" /\ m.answers # NoId
    BY DEF m
  <2>2. xs \in Seq(Held) /\ Result(m) \in ToSet(xs)
    BY <1>2, <2>1, ExtractedResults DEF Result
  <2>3. ys \in Seq(Held)
    BY <1>2, ExtractedImages
  <2> QED BY <2>2, <2>3
<1>4. OwnArrays(acc)
  BY DEF Waiting
<1>5. acc.results.at = acc.images.at => acc.results.at = 0
  BY <1>4 DEF OwnArrays
<1> HIDE DEF xs, ys, H
<1>6. /\ r.at = p.at => r.at = 0
      /\ r.at = acc.results.at \/ r.at > Len(H)
      /\ p.at = acc.images.at \/ p.at > Len(H)
      /\ Cells(h, r) = Cells(H, acc.results) \o xs
  <2>1. BothExtended(H, acc.results, acc.images, xs, ys)
    BY <1>0, <1>3, <1>5, TwoAppends
  <2> QED BY <2>1 DEF BothExtended
<1>7. /\ next.heap = h /\ next.results = r /\ next.images = p /\ next.out = acc.out
  <2>1. acc \in [heap : Heaps, results : Slices, images : Slices, out : Seq(TurnsOf(C))]
    BY DEF Gathering
  <2> HIDE DEF TurnsOf, h, r, p
  <2> QED BY <2>1
<1> HIDE DEF a, b, h, r, p, next
<1>8. OwnArrays(next)
  BY <1>6, <1>7 DEF OwnArrays
<1>9. ASSUME NEW i \in DOMAIN acc.out PROVE Arrays(acc.out[i]) \cap Arrays(next) = {}
  <2>1. Within(H, acc.out[i].images) /\ Within(H, acc.out[i].results)
    BY <1>0 DEF TurnsIn
  <2>2. Arrays(acc.out[i]) \cap Arrays(acc) = {}
    BY DEF Waiting
  <2> QED BY <1>0, <1>6, <1>7, <2>1, <2>2, StillApart
<1>10. ToSet(Cells(h, r)) = ToSet(Cells(H, acc.results)) \cup ToSet(xs)
  <2> DEFINE old == Cells(H, acc.results)
  <2>1. old \in Seq(Held)
    BY <1>0, CellsType
  <2> HIDE DEF old
  <2>2. ToSet(old \o xs) = ToSet(old) \cup ToSet(xs)
    BY <1>3, <2>1, ToSetJoins
  <2> QED BY <1>6, <2>2 DEF old
<1>11. \A k \in 1..(n + 1) : ms[k].role = "tool" => Result(ms[k]) \in ToSet(Cells(h, r))
  <2> TAKE k \in 1..(n + 1)
  <2> HAVE ms[k].role = "tool"
  <2>1. CASE k = n + 1
    BY <1>3, <1>10, <2>1
  <2>2. CASE k # n + 1
    <3>1. k \in 1..n
      BY <2>2
    <3> QED BY <1>10, <3>1 DEF Waiting, H
  <2> QED BY <2>1, <2>2
<1>12. n + 1 \in 1..(n + 1) /\ ms[n + 1].role = "tool"
  OBVIOUS
<1>13. Waiting(next, ms, n + 1)
  BY <1>7, <1>8, <1>9, <1>11, <1>12 DEF Waiting
<1> QED BY <1>1, <1>7, <1>13

(* Any other message brings arrays of its own. *)
LEMMA RoundSpeaks ==
  ASSUME NEW C, NEW acc \in Gathering(C), NEW ms, NEW m \in CanonicalMessages, m.content \in C,
         Distinct(acc.out)
  PROVE  LET next == Speak(acc, m)
         IN /\ Distinct(next.out) /\ next.results = acc.results /\ next.images = acc.images
            /\ \A i \in DOMAIN acc.heap : next.heap[i] = acc.heap[i]
            /\ \A x : Holds(acc.heap, acc.out, x) => Holds(next.heap, next.out, x)
            /\ (\A i \in DOMAIN acc.out : Arrays(acc.out[i]) \cap Arrays(acc) = {}) =>
                  \A i \in DOMAIN next.out : Arrays(next.out[i]) \cap Arrays(acc) = {}
<1> DEFINE user == m.role # "assistant"
           H == acc.heap
           xs == IF user THEN ExtractToolResults(m) ELSE <<>>
           ys == ExtractImages(m)
           a == NewSlice(H, xs)
           b == NewSlice(a.heap, ys)
           h == b.heap
           r == a.slice
           p == b.slice
           role == IF user THEN "user" ELSE "assistant"
           t == Turn(role, m.content, p, r)
           out == Append(acc.out, t)
           next == [acc EXCEPT !.heap = h, !.out = out]
           S == TurnsOf(C)
<1>0. /\ H \in Heaps /\ acc.results \in Slices /\ acc.images \in Slices
      /\ acc.out \in Seq(S)
      /\ Within(H, acc.results) /\ Within(H, acc.images)
      /\ \A i \in DOMAIN acc.out : acc.out[i] \in TurnsIn(H, C)
  BY GatheringFields
<1>1. Speak(acc, m) = next
  BY DEF Speak
<1>2. xs \in Seq(Held) /\ ys \in Seq(Held)
  <2> DEFINE es == ExtractToolResults(m)
  <2>0. <<>> \in Seq(Held)
    OBVIOUS
  <2>1. es \in Seq(Held)
    BY ExtractedResults
  <2> HIDE DEF es
  <2>2. ys \in Seq(Held)
    BY ExtractedImages
  <2>3. xs = IF user THEN es ELSE <<>>
    BY DEF es
  <2> HIDE DEF xs
  <2> QED BY <2>0, <2>1, <2>2, <2>3
<1> HIDE DEF xs, ys, H
<1>3. /\ Within(h, r) /\ Within(h, p)
      /\ r.at = p.at => r.at = 0
      /\ r.at = 0 \/ r.at > Len(H)
      /\ p.at = 0 \/ p.at > Len(H)
      /\ \A i \in DOMAIN H : h[i] = H[i]
  BY <1>0, <1>2, TwoSlices
<1> HIDE DEF a, b, h, r, p
<1>4. role \in {"user", "assistant"}
  OBVIOUS
<1> HIDE DEF role
<1>5. t \in S /\ t.images = p /\ t.results = r
  BY <1>3, <1>4 DEF Turn, TurnsOf, Within
<1> HIDE DEF t, S
<1>6. next.heap = h /\ next.results = acc.results /\ next.images = acc.images /\ next.out = out
  <2>1. acc \in [heap : Heaps, results : Slices, images : Slices, out : Seq(S)]
    BY DEF Gathering, S
  <2> HIDE DEF out
  <2> QED BY <2>1
<1> HIDE DEF next
<1>7. OwnArrays(t)
  BY <1>3, <1>5 DEF OwnArrays
<1>8. ASSUME NEW u, Within(H, u.images), Within(H, u.results) PROVE Arrays(u) \cap Arrays(t) = {}
  <2> DEFINE none == [images |-> NilSlice, results |-> NilSlice]
  <2>1. Arrays(none) = {}
    BY DEF Arrays, NilSlice
  <2>2. t.images.at = 0 \/ t.images.at > Len(H)
    BY <1>3, <1>5
  <2>3. t.results.at = 0 \/ t.results.at > Len(H)
    BY <1>3, <1>5
  <2> HIDE DEF none
  <2> QED BY <1>0, <1>8, <2>1, <2>2, <2>3, StillApart
<1>9. \A i \in DOMAIN acc.out : Within(H, acc.out[i].images) /\ Within(H, acc.out[i].results)
  BY <1>0 DEF TurnsIn
<1>10. Distinct(out)
  <2>1. \A i \in DOMAIN acc.out : Arrays(acc.out[i]) \cap Arrays(t) = {}
    BY <1>8, <1>9
  <2> QED BY <1>0, <1>5, <1>7, <2>1, DistinctGrows
<1>11. ASSUME NEW x, Holds(H, acc.out, x) PROVE Holds(h, out, x)
  <2>1. \A i \in DOMAIN acc.out : acc.out[i].results.at # 0 =>
          h[acc.out[i].results.at] = H[acc.out[i].results.at]
    BY <1>3, <1>9 DEF Within
  <2>2. Holds(h, acc.out, x)
    BY <1>11, <2>1, HoldsStill
  <2> QED BY <1>0, <1>5, <2>2, HoldsMore
<1>12. ASSUME \A i \in DOMAIN acc.out : Arrays(acc.out[i]) \cap Arrays(acc) = {},
              NEW i \in DOMAIN out
       PROVE  Arrays(out[i]) \cap Arrays(acc) = {}
  <2>1. Arrays(acc) \cap Arrays(t) = {}
    BY <1>0, <1>8
  <2>2. (i \in DOMAIN acc.out /\ out[i] = acc.out[i]) \/ out[i] = t
    BY <1>0, <1>5
  <2> QED BY <1>12, <2>1, <2>2
<1> QED BY <1>1, <1>3, <1>6, <1>10, <1>11, <1>12 DEF H

(* One message more. *)
LEMMA RoundAbsorbs ==
  ASSUME NEW C, <<>> \in C, NEW ms \in Seq(CanonicalMessages), \A i \in DOMAIN ms : ms[i].content \in C,
         OneRound(ms), \A i \in DOMAIN ms : ms[i].role = "tool" => ms[i].answers # NoId,
         NEW n \in Nat, n + 1 <= Len(ms), NEW acc \in Gathering(C), InRound(acc, ms, n)
  PROVE  InRound(Absorb(acc, ms[n + 1]), ms, n + 1)
<1> DEFINE m == ms[n + 1]
           f == Flush(acc)
           next == Speak(f, m)
<1>0. /\ Len(ms) \in Nat /\ DOMAIN ms = 1..Len(ms) /\ n + 1 \in DOMAIN ms
      /\ n + 1 \in 1..(n + 1) /\ n + 1 \in (n + 1)..Len(ms)
      /\ \A k \in 1..n : k \in 1..(n + 1) /\ k \in DOMAIN ms
      /\ \A k \in 1..(n + 1) : k \in 1..n \/ k = n + 1
      /\ \A k \in ((n + 1) + 1)..Len(ms) : k \in (n + 1)..Len(ms) /\ k \in DOMAIN ms /\ k > n + 1
  <2> DEFINE l == Len(ms)
  <2>1. l \in Nat /\ DOMAIN ms = 1..l
    OBVIOUS
  <2> HIDE DEF l
  <2>2. l \in Nat /\ n \in Nat /\ n + 1 <= l
    BY <2>1 DEF l
  <2>3. n + 1 \in 1..l /\ n + 1 \in 1..(n + 1) /\ n + 1 \in (n + 1)..l
    BY <2>2
  <2>4. /\ \A k \in 1..n : k \in 1..(n + 1) /\ k \in 1..l
        /\ \A k \in 1..(n + 1) : k \in 1..n \/ k = n + 1
    BY <2>2
  <2>5. \A k \in ((n + 1) + 1)..l : k \in (n + 1)..l /\ k \in 1..l /\ k > n + 1
    BY <2>2
  <2> QED BY <2>1, <2>3, <2>4, <2>5 DEF l
<1>1. m \in CanonicalMessages /\ m.content \in C /\ m.role \in Roles
  <2>1. m \in CanonicalMessages /\ m.content \in C
    BY <1>0
  <2> HIDE DEF m
  <2> QED BY <2>1 DEF CanonicalMessages
<1>2. CASE m.role \in {"system", "developer"}
  <2>1. Absorb(acc, m) = acc
    BY <1>2 DEF Absorb
  <2>2. m.role # "tool"
    BY <1>2
  <2>3. CASE Waiting(acc, ms, n)
    BY <1>0, <2>1, <2>2, <2>3 DEF InRound, Waiting
  <2>4. CASE RoundOver(acc, ms, n)
    BY <1>0, <2>1, <2>2, <2>4 DEF InRound, RoundOver
  <2> QED BY <2>3, <2>4 DEF InRound
<1>3. CASE m.role = "tool"
  <2>1. Absorb(acc, m) = Gather(acc, m)
    BY <1>3 DEF Absorb
  <2>2. Waiting(acc, ms, n) /\ Distinct(acc.out)
    BY <1>0, <1>3 DEF InRound, RoundOver
  <2>3. m.answers # NoId
    BY <1>0, <1>3
  <2>4. Distinct(Gather(acc, m).out) /\ Waiting(Gather(acc, m), ms, n + 1)
    BY <1>3, <2>2, <2>3, RoundGathers
  <2> QED BY <2>1, <2>4 DEF InRound
<1>4. CASE m.role \in {"user", "assistant"}
  <2>1. Absorb(acc, m) = next /\ m.role # "tool"
    BY <1>4 DEF Absorb
  <2>2. f \in Gathering(C)
    BY FlushKeeps
  <2>3. ASSUME Distinct(f.out)
        PROVE  /\ Distinct(next.out) /\ next.results = f.results /\ next.images = f.images
               /\ \A i \in DOMAIN f.heap : next.heap[i] = f.heap[i]
               /\ \A x : Holds(f.heap, f.out, x) => Holds(next.heap, next.out, x)
               /\ (\A i \in DOMAIN f.out : Arrays(f.out[i]) \cap Arrays(f) = {}) =>
                     \A i \in DOMAIN next.out : Arrays(next.out[i]) \cap Arrays(f) = {}
    <3> HIDE DEF f, m
    <3> QED BY <1>1, <2>2, <2>3, RoundSpeaks
  <2>4. ASSUME Distinct(f.out), f.results.len = 0, f.images.len = 0,
               \A k \in 1..n : ms[k].role = "tool" => Holds(f.heap, f.out, Result(ms[k])),
               \A k \in ((n + 1) + 1)..Len(ms) : ms[k].role # "tool"
        PROVE  InRound(next, ms, n + 1)
    <3>1. /\ Distinct(next.out) /\ next.results = f.results /\ next.images = f.images
          /\ \A x : Holds(f.heap, f.out, x) => Holds(next.heap, next.out, x)
      BY <2>3, <2>4
    <3> HIDE DEF next, f
    <3>2. \A k \in 1..(n + 1) : ms[k].role = "tool" => Holds(next.heap, next.out, Result(ms[k]))
      BY <1>0, <2>1, <2>4, <3>1
    <3>3. next.results.len = 0 /\ next.images.len = 0
      BY <2>4, <3>1
    <3> QED BY <2>4, <3>1, <3>2, <3>3 DEF InRound, RoundOver
  <2>5. CASE Waiting(acc, ms, n)
    <3>0. Distinct(acc.out)
      BY DEF InRound
    <3>1. CASE f = acc /\ \A k \in 1..n : ms[k].role # "tool"
      <4>1. /\ Distinct(next.out) /\ next.results = acc.results /\ next.images = acc.images
            /\ (\A i \in DOMAIN acc.out : Arrays(acc.out[i]) \cap Arrays(acc) = {}) =>
                  \A i \in DOMAIN next.out : Arrays(next.out[i]) \cap Arrays(acc) = {}
        BY <2>3, <3>0, <3>1
      <4> HIDE DEF next, f
      <4>2. OwnArrays(next) /\ Arrays(next) = Arrays(acc)
        BY <2>5, <4>1 DEF OwnArrays, Arrays, Waiting
      <4>3. \A k \in 1..(n + 1) : ms[k].role # "tool"
        BY <1>0, <2>1, <3>1
      <4>4. next.results.len = 0 /\ next.images.len = 0
        BY <2>5, <3>1, <4>1 DEF Waiting
      <4>5. \A i \in DOMAIN next.out : Arrays(next.out[i]) \cap Arrays(next) = {}
        BY <2>5, <4>1, <4>2 DEF Waiting
      <4>6. Waiting(next, ms, n + 1)
        BY <4>2, <4>3, <4>4, <4>5 DEF Waiting
      <4> QED BY <2>1, <4>1, <4>6 DEF InRound
    <3>2. CASE /\ Distinct(f.out) /\ \E k \in 1..n : ms[k].role = "tool"
               /\ f.results.len = 0 /\ f.images.len = 0
               /\ \A k \in 1..n : ms[k].role = "tool" => Holds(f.heap, f.out, Result(ms[k]))
      <4>1. PICK i \in 1..n : ms[i].role = "tool"
        BY <3>2
      <4>2. ASSUME NEW k \in ((n + 1) + 1)..Len(ms), ms[k].role = "tool" PROVE FALSE
        <5>1. i \in DOMAIN ms /\ k \in DOMAIN ms /\ i < k /\ n + 1 \in i..k
          BY <1>0
        <5>2. ms[n + 1].role \in {"tool", "system", "developer"}
          BY <4>1, <4>2, <5>1 DEF OneRound
        <5> QED BY <1>4, <5>2
      <4> QED BY <2>1, <2>4, <3>2, <4>2
    <3> QED BY <2>5, <3>0, <3>1, <3>2, RoundFlushed
  <2>6. CASE RoundOver(acc, ms, n)
    <3>1. f = acc
      BY <2>6 DEF RoundOver, Flush
    <3>2. Distinct(acc.out)
      BY DEF InRound
    <3>3. /\ acc.results.len = 0 /\ acc.images.len = 0
          /\ \A k \in 1..n : ms[k].role = "tool" => Holds(acc.heap, acc.out, Result(ms[k]))
          /\ \A k \in ((n + 1) + 1)..Len(ms) : ms[k].role # "tool"
      BY <1>0, <2>6 DEF RoundOver
    <3> QED BY <2>1, <2>4, <3>1, <3>2, <3>3
  <2> QED BY <2>5, <2>6 DEF InRound
<1> QED BY <1>1, <1>2, <1>3, <1>4 DEF Roles

(* convertToUnified: the results of one round are with a turn of the user,  *)
(* and no array is shared.                                                  *)
LEMMA RoundConverted ==
  ASSUME NEW C, <<>> \in C, NEW ms \in Seq(CanonicalMessages), \A i \in DOMAIN ms : ms[i].content \in C,
         C \subseteq Seq(Blocks),
         OneRound(ms), \A i \in DOMAIN ms : ms[i].role = "tool" => ms[i].answers # NoId
  PROVE  LET unified == ConvertToUnified(ms)
         IN /\ Distinct(unified.out)
            /\ \A k \in DOMAIN ms : ms[k].role = "tool" =>
                 Holds(unified.heap, unified.out, Result(ms[k]))
<1>1. PICK g : /\ g[0] = NothingGathered
               /\ \A i \in 1..Len(ms) : g[i] = Absorb(g[i - 1], ms[i])
               /\ g[Len(ms)] = Absorbing!Fold(NothingGathered, ms)
  BY Absorbing!FoldChain
<1> DEFINE M == {n \in Nat : n <= Len(ms) =>
                   g[n] \in Gathering(C) /\ Follows(g[n].out, ms, n) /\ InRound(g[n], ms, n)}
<1>2. 0 \in M
  <2>1. /\ NothingGathered.out = <<>> /\ NothingGathered.results = NilSlice
        /\ NothingGathered.images = NilSlice
    BY DEF NothingGathered
  <2>2. Distinct(<<>>)
    BY DEF Distinct
  <2>3. Waiting(NothingGathered, ms, 0)
    BY <2>1 DEF Waiting, OwnArrays, NilSlice
  <2>4. InRound(NothingGathered, ms, 0)
    BY <2>1, <2>2, <2>3 DEF InRound
  <2> QED BY <1>1, <2>1, <2>4, NothingGatheredType, FollowsNothing
<1>3. ASSUME NEW n \in Nat, n \in M PROVE n + 1 \in M
  <2>0. Len(ms) \in Nat
    OBVIOUS
  <2>1. CASE n + 1 <= Len(ms)
    <3>1. n + 1 \in 1..Len(ms) /\ (n + 1) - 1 = n /\ n <= Len(ms)
      BY <2>0, <2>1
    <3>2. g[n + 1] = Absorb(g[n], ms[n + 1])
      BY <1>1, <3>1
    <3>3. g[n] \in Gathering(C) /\ Follows(g[n].out, ms, n) /\ InRound(g[n], ms, n)
      BY <1>3, <3>1
    <3>4. /\ Absorb(g[n], ms[n + 1]) \in Gathering(C)
          /\ Follows(Absorb(g[n], ms[n + 1]).out, ms, n + 1)
      BY <2>1, <3>3, AbsorbFollows
    <3>5. InRound(Absorb(g[n], ms[n + 1]), ms, n + 1)
      BY <2>1, <3>3, RoundAbsorbs
    <3> QED BY <3>2, <3>4, <3>5
  <2> QED BY <2>1
<1> HIDE DEF M
<1>4. Nat \subseteq M
  BY <1>2, <1>3, Induction
<1>5. Len(ms) \in Nat /\ DOMAIN ms = 1..Len(ms)
  OBVIOUS
<1> DEFINE acc == g[Len(ms)]
<1>6. acc \in Gathering(C) /\ InRound(acc, ms, Len(ms))
  BY <1>4, <1>5 DEF M
<1>7. ConvertToUnified(ms) = Flush(acc)
  BY <1>1, ConvertedIs
<1> HIDE DEF acc
<1>8. CASE Waiting(acc, ms, Len(ms))
  <2>1. Distinct(acc.out)
    BY <1>6 DEF InRound
  <2> QED BY <1>5, <1>6, <1>7, <1>8, <2>1, RoundFlushed
<1>9. CASE RoundOver(acc, ms, Len(ms))
  <2>1. Flush(acc) = acc
    BY <1>9 DEF RoundOver, Flush
  <2> QED BY <1>5, <1>6, <1>7, <1>9, <2>1 DEF RoundOver, InRound
<1> QED BY <1>6, <1>8, <1>9 DEF InRound

(* What has been merged of the turns ts, whose slices are on h: it shares   *)
(* no array with those to come, which are as they were, and holds what the  *)
(* first n held.                                                            *)
Carries(acc, h, ts, n) ==
  /\ Distinct(acc.out)
  /\ \A i \in DOMAIN acc.out, j \in (n + 1)..Len(ts) : Arrays(acc.out[i]) \cap Arrays(ts[j]) = {}
  /\ \A j \in (n + 1)..Len(ts) : Cells(acc.heap, ts[j].results) = Cells(h, ts[j].results)
  /\ \A k \in 1..n : ts[k].role = "user" =>
       \A x \in ToSet(Cells(h, ts[k].results)) : Holds(acc.heap, acc.out, x)

(* What a step of the merge has to show of the turn it ends with. *)
LEMMA CarriesOn ==
  ASSUME NEW S, NEW front \in Seq(S), NEW u \in S, NEW heap, NEW h, NEW ts, NEW n \in Nat, NEW acc,
         NEW next, n + 1 <= Len(ts), Len(ts) \in Nat,
         next.out = Append(front, u), next.heap = heap,
         Distinct(front), OwnArrays(u), \A i \in DOMAIN front : Arrays(front[i]) \cap Arrays(u) = {},
         \A i \in DOMAIN front, j \in (n + 2)..Len(ts) : Arrays(front[i]) \cap Arrays(ts[j]) = {},
         \A j \in (n + 2)..Len(ts) : Arrays(u) \cap Arrays(ts[j]) = {},
         \A j \in (n + 2)..Len(ts) : Cells(heap, ts[j].results) = Cells(h, ts[j].results),
         \A k \in 1..n : ts[k].role = "user" =>
           \A x \in ToSet(Cells(h, ts[k].results)) : Holds(heap, Append(front, u), x),
         ts[n + 1].role = "user" =>
           \A x \in ToSet(Cells(h, ts[n + 1].results)) : Holds(heap, Append(front, u), x)
  PROVE  Carries(next, h, ts, n + 1)
<1> DEFINE out == Append(front, u)
<1>1. Distinct(out)
  BY DistinctGrows
<1>2. \A i \in DOMAIN out : (i \in DOMAIN front /\ out[i] = front[i]) \/ out[i] = u
  BY AppendFields
<1> HIDE DEF out
<1>3. \A j \in ((n + 1) + 1)..Len(ts) : j \in (n + 2)..Len(ts)
  OBVIOUS
<1>4. \A i \in DOMAIN out, j \in ((n + 1) + 1)..Len(ts) : Arrays(out[i]) \cap Arrays(ts[j]) = {}
  BY <1>2, <1>3
<1>5. ASSUME NEW k \in 1..(n + 1), ts[k].role = "user", NEW x \in ToSet(Cells(h, ts[k].results))
      PROVE  Holds(heap, out, x)
  <2>1. CASE k = n + 1
    BY <1>5, <2>1 DEF out
  <2>2. CASE k # n + 1
    <3>1. k \in 1..n
      BY <2>2
    <3> QED BY <1>5, <3>1 DEF out
  <2> QED BY <2>1, <2>2
<1>6. next.out = out
  BY DEF out
<1> QED BY <1>1, <1>3, <1>4, <1>5, <1>6 DEF Carries

LEMMA ToCome ==
  ASSUME NEW n \in Nat, NEW l \in Nat, n + 1 <= l
  PROVE  /\ n + 1 \in (n + 1)..l /\ n + 1 \in 1..l
         /\ \A j \in (n + 2)..l : j \in (n + 1)..l /\ j \in 1..l /\ j # n + 1
OBVIOUS

LEMMA CarriesApart ==
  ASSUME NEW C, NEW h, NEW ts \in Seq(TurnsOf(C)), NEW n \in Nat, n + 1 <= Len(ts), Distinct(ts),
         NEW acc \in Gathered(C, h), Carries(acc, h, ts, n),
         acc.out = <<>> \/ Last(acc.out).role # ts[n + 1].role
  PROVE  Carries(Adjoin(acc, ts[n + 1]), h, ts, n + 1)
<1> DEFINE S == TurnsOf(C)
           t == ts[n + 1]
           out == acc.out
           H == acc.heap
           next == Adjoin(acc, t)
<1>1. /\ acc \in [heap : Heaps, out : Seq(S)] /\ out \in Seq(S)
  BY GatheredFields
<1>2. next = [acc EXCEPT !.out = Append(out, t)]
  BY DEF Adjoin
<1> HIDE DEF S, next
<1>3. /\ ts \in Seq(S) /\ Len(ts) \in Nat /\ DOMAIN ts = 1..Len(ts) /\ t \in S
  <2>1. ts \in Seq(S)
    BY DEF S
  <2>2. n + 1 \in 1..Len(ts)
    BY <2>1
  <2> QED BY <2>1, <2>2
<1>4. next.out = Append(out, t) /\ next.heap = H
  BY <1>1, <1>2
<1>5. /\ n + 1 \in (n + 1)..Len(ts) /\ n + 1 \in DOMAIN ts
      /\ \A j \in (n + 2)..Len(ts) : j \in (n + 1)..Len(ts) /\ j \in DOMAIN ts /\ j # n + 1
  BY <1>3, ToCome
<1>6. OwnArrays(t) /\ \A j \in (n + 2)..Len(ts) : Arrays(t) \cap Arrays(ts[j]) = {}
  BY <1>5 DEF Distinct
<1>7. /\ Distinct(out) /\ \A i \in DOMAIN out : Arrays(out[i]) \cap Arrays(t) = {}
      /\ \A i \in DOMAIN out, j \in (n + 2)..Len(ts) : Arrays(out[i]) \cap Arrays(ts[j]) = {}
      /\ \A j \in (n + 2)..Len(ts) : Cells(H, ts[j].results) = Cells(h, ts[j].results)
      /\ Cells(H, t.results) = Cells(h, t.results)
  BY <1>5 DEF Carries
<1>8. \A k \in 1..n : ts[k].role = "user" =>
         \A x \in ToSet(Cells(h, ts[k].results)) : Holds(H, out, x)
  BY DEF Carries
<1> HIDE DEF out, H, t
<1>9. \A k \in 1..n : ts[k].role = "user" =>
         \A x \in ToSet(Cells(h, ts[k].results)) : Holds(H, Append(out, t), x)
  BY <1>1, <1>3, <1>8, HoldsMore
<1>10. t.role = "user" => \A x \in ToSet(Cells(h, t.results)) : Holds(H, Append(out, t), x)
  BY <1>1, <1>3, <1>7, HoldsMore
<1>11. ts[n + 1].role = "user" =>
         \A x \in ToSet(Cells(h, ts[n + 1].results)) : Holds(H, Append(out, t), x)
  BY <1>10 DEF t
<1>12. Carries(next, h, ts, n + 1)
  BY <1>1, <1>3, <1>4, <1>6, <1>7, <1>9, <1>11, CarriesOn
<1> QED BY <1>12 DEF next, t

(* Merging writes to the arrays of the last turn only. *)
LEMMA CarriesMerged ==
  ASSUME NEW C, Closed(C), NEW h, NEW ts \in Seq(TurnsOf(C)), NEW n \in Nat, n + 1 <= Len(ts), Distinct(ts),
         \A i \in DOMAIN ts : ts[i] \in TurnsIn(h, C),
         NEW acc \in Gathered(C, h), Carries(acc, h, ts, n),
         ~(acc.out = <<>> \/ Last(acc.out).role # ts[n + 1].role)
  PROVE  Carries(Adjoin(acc, ts[n + 1]), h, ts, n + 1)
<1> DEFINE S == TurnsOf(C)
           t == ts[n + 1]
           out == acc.out
           f == Front(out)
           y == Last(out)
           H == acc.heap
           xs == Cells(H, t.images)
           images == GoAppend(H, y.images, xs)
           H1 == images.heap
           p == images.slice
           ys == Cells(H1, t.results)
           results == GoAppend(H1, y.results, ys)
           H2 == results.heap
           r == results.slice
           c == MergeContent(y.content, t.content)
           u == Turn(y.role, c, p, r)
           next == Adjoin(acc, t)
<1>1. /\ H \in Heaps /\ out \in Seq(S) /\ Wider(h, H)
      /\ \A i \in DOMAIN out : out[i] \in TurnsIn(H, C)
  BY GatheredFields
<1>2. next = [heap |-> H2, out |-> Append(f, u)]
  BY DEF Adjoin
<1>3. out # <<>> /\ y.role = t.role
  OBVIOUS
<1>4. /\ ts \in Seq(S) /\ Len(ts) \in Nat /\ DOMAIN ts = 1..Len(ts)
  <2> HIDE DEF S
  <2>1. ts \in Seq(S)
    BY DEF S
  <2> QED BY <2>1
<1>5. /\ n + 1 \in (n + 1)..Len(ts) /\ n + 1 \in DOMAIN ts
      /\ \A j \in (n + 2)..Len(ts) : j \in (n + 1)..Len(ts) /\ j \in DOMAIN ts /\ j # n + 1
  BY <1>4, ToCome
<1>6. \A i \in DOMAIN ts : ts[i] \in TurnsIn(H, C)
  BY <1>1, TurnsWider
<1>7. /\ f \in Seq(S) /\ y \in TurnsIn(H, C)
      /\ \A i \in DOMAIN f : f[i] \in TurnsIn(H, C) /\ i \in DOMAIN out /\ f[i] = out[i]
      /\ \E i \in DOMAIN out : y = out[i]
  <2> HIDE DEF S
  <2>2. /\ f \in Seq(S) /\ Len(out) \in Nat \ {0} /\ Len(f) = Len(out) - 1
        /\ y = out[Len(out)] /\ \A i \in 1..(Len(out) - 1) : f[i] = out[i]
    BY <1>1, <1>3, FrontLast
  <2> HIDE DEF f, y
  <2>3. DOMAIN out = 1..Len(out) /\ DOMAIN f = 1..Len(f)
    BY <1>1, <2>2
  <2>4. \A i \in DOMAIN f : f[i] = out[i] /\ i \in DOMAIN out
    BY <2>2, <2>3
  <2>5. Len(out) \in DOMAIN out
    BY <2>2, <2>3
  <2> QED BY <1>1, <2>2, <2>4, <2>5
<1>8. /\ Distinct(f) /\ OwnArrays(y) /\ \A i \in DOMAIN f : Arrays(f[i]) \cap Arrays(y) = {}
  <2> HIDE DEF S
  <2>1. Distinct(out)
    BY DEF Carries
  <2> QED BY <1>1, <1>3, <2>1, DistinctFront
<1>9. \A j \in (n + 1)..Len(ts) : /\ Arrays(y) \cap Arrays(ts[j]) = {}
                                  /\ \A i \in DOMAIN f : Arrays(f[i]) \cap Arrays(ts[j]) = {}
  <2> HIDE DEF f, y, S
  <2> QED BY <1>7 DEF Carries
<1>10. \A j \in (n + 1)..Len(ts) : Cells(H, ts[j].results) = Cells(h, ts[j].results)
  BY DEF Carries
<1>11. \A k \in 1..n : ts[k].role = "user" =>
         \A x \in ToSet(Cells(h, ts[k].results)) : Holds(H, out, x)
  BY DEF Carries
<1>12. t \in TurnsIn(H, C)
  BY <1>5, <1>6
<1> HIDE DEF t, out, H, f, y, next
<1>13. /\ y \in S /\ Within(H, y.images) /\ Within(H, y.results) /\ y.content \in C
       /\ Within(H, t.images) /\ Within(H, t.results) /\ t.content \in C
       /\ y.role \in {"user", "assistant"}
       /\ \A i \in DOMAIN f : Within(H, f[i].images) /\ Within(H, f[i].results)
       /\ \A j \in DOMAIN ts : Within(H, ts[j].images) /\ Within(H, ts[j].results)
  BY <1>6, <1>7, <1>12 DEF TurnsIn, TurnsOf
<1>14. xs \in Seq(Held)
  BY <1>1, <1>13, CellsType
<1> HIDE DEF xs
<1>15. ys \in Seq(Held) /\ ys = Cells(h, t.results)
  <2>1. /\ Wider(H, H1) /\ H1 \in Heaps
        /\ \A i \in DOMAIN H : i # y.images.at => H1[i] = H[i]
    BY <1>1, <1>13, <1>14, GoAppendAdds
  <2> HIDE DEF images, H1
  <2>2. Within(H1, t.results)
    BY <1>13, <2>1, WithinWider
  <2>3. ys \in Seq(Held)
    BY <2>1, <2>2, CellsType
  <2>4. t.results.at # 0 => t.results.at \in DOMAIN H /\ t.results.at # y.images.at
    <3>1. Arrays(y) \cap Arrays(t) = {}
      BY <1>5, <1>9 DEF t
    <3>2. t.results.at # 0 => t.results.at \in Arrays(t)
      BY DEF Arrays
    <3>3. y.images.at # 0 => y.images.at \in Arrays(y)
      BY DEF Arrays
    <3> QED BY <1>13, <3>1, <3>2, <3>3 DEF Within
  <2>5. ys = Cells(H, t.results)
    BY <2>1, <2>4, CellsSame
  <2>6. Cells(H, t.results) = Cells(h, t.results)
    BY <1>5, <1>10 DEF t
  <2> QED BY <2>3, <2>5, <2>6
<1> HIDE DEF ys
<1>16. /\ Wider(H, H2) /\ H2 \in Heaps /\ Within(H2, p) /\ Within(H2, r)
       /\ p.at = r.at => p.at = 0
       /\ p.at = y.images.at \/ p.at > Len(H)
       /\ r.at = y.results.at \/ r.at > Len(H)
       /\ Cells(H2, r) = Cells(H, y.results) \o ys
       /\ \A i \in DOMAIN H : i # y.images.at /\ i # y.results.at => H2[i] = H[i]
  <2>1. y.images.at = y.results.at => y.images.at = 0
    BY <1>8 DEF OwnArrays
  <2>2. H \in Heaps /\ Within(H, y.images) /\ Within(H, y.results)
    BY <1>1, <1>13
  <2> HIDE DEF images, H1, results, H2, p, r, c, u, S
  <2>3. BothExtended(H, y.images, y.results, xs, ys)
    BY <1>14, <1>15, <2>1, <2>2, TwoAppends
  <2> QED BY <2>3 DEF BothExtended, images, H1, results, H2, p, r
<1> HIDE DEF images, H1, results, H2, p, r
<1>17. c \in C
  BY <1>13 DEF Closed
<1> HIDE DEF c
<1>18. u \in S /\ u.role = y.role /\ u.images = p /\ u.results = r
  BY <1>13, <1>16, <1>17 DEF Turn, TurnsOf, Within
<1> HIDE DEF u, S
<1>19. OwnArrays(u)
  BY <1>16, <1>18 DEF OwnArrays
<1>20. ASSUME NEW v, Within(H, v.images), Within(H, v.results), Arrays(v) \cap Arrays(y) = {}
       PROVE  /\ Arrays(v) \cap Arrays(u) = {}
              /\ v.results.at # 0 => H2[v.results.at] = H[v.results.at]
  <2>1. Arrays(v) \cap Arrays(u) = {}
    BY <1>1, <1>16, <1>18, <1>20, StillApart
  <2>2. ASSUME v.results.at # 0 PROVE H2[v.results.at] = H[v.results.at]
    <3>1. v.results.at \in DOMAIN H
      BY <1>20, <2>2 DEF Within
    <3>2. v.results.at \notin Arrays(y)
      BY <1>20, <2>2 DEF Arrays
    <3>3. v.results.at # y.images.at /\ v.results.at # y.results.at
      BY <2>2, <3>2 DEF Arrays
    <3> QED BY <1>16, <3>1, <3>3
  <2> QED BY <2>1, <2>2
<1>21. /\ \A i \in DOMAIN f : Arrays(f[i]) \cap Arrays(u) = {}
       /\ \A i \in DOMAIN f : f[i].results.at # 0 => H2[f[i].results.at] = H[f[i].results.at]
  BY <1>8, <1>13, <1>20
<1>22. ASSUME NEW j \in (n + 2)..Len(ts)
       PROVE  /\ Arrays(u) \cap Arrays(ts[j]) = {}
              /\ Cells(H2, ts[j].results) = Cells(h, ts[j].results)
  <2>1. j \in (n + 1)..Len(ts) /\ j \in DOMAIN ts
    BY <1>5
  <2>2. Within(H, ts[j].images) /\ Within(H, ts[j].results)
    BY <1>13, <2>1
  <2>3. Arrays(ts[j]) \cap Arrays(y) = {}
    BY <1>9, <2>1
  <2>4. /\ Arrays(ts[j]) \cap Arrays(u) = {}
        /\ ts[j].results.at # 0 => H2[ts[j].results.at] = H[ts[j].results.at]
    BY <1>20, <2>2, <2>3
  <2>5. Cells(H2, ts[j].results) = Cells(H, ts[j].results)
    BY <2>4, CellsSame
  <2>6. Cells(H, ts[j].results) = Cells(h, ts[j].results)
    BY <1>10, <2>1
  <2> QED BY <2>4, <2>5, <2>6
<1>23. ToSet(Cells(H2, r)) = ToSet(Cells(H, y.results)) \cup ToSet(ys)
  <2> DEFINE old == Cells(H, y.results)
  <2>1. old \in Seq(Held)
    BY <1>1, <1>13, CellsType
  <2> HIDE DEF old
  <2>2. ToSet(old \o ys) = ToSet(old) \cup ToSet(ys)
    BY <1>15, <2>1, ToSetJoins
  <2> QED BY <1>16, <2>2 DEF old
<1>24. ASSUME NEW x, Holds(H, out, x) PROVE Holds(H2, Append(f, u), x)
  <2>1. PICK i \in DOMAIN out : out[i].role = "user" /\ x \in ToSet(Cells(H, out[i].results))
    BY <1>24 DEF Holds
  <2>2. /\ Len(out) \in Nat \ {0} /\ DOMAIN out = 1..Len(out) /\ y = out[Len(out)]
        /\ DOMAIN f = 1..(Len(out) - 1)
    <3>1. /\ Front(out) \in Seq(S) /\ Len(out) \in Nat \ {0} /\ Len(Front(out)) = Len(out) - 1
          /\ Last(out) = out[Len(out)]
      BY <1>1, <1>3, FrontLast
    <3> QED BY <1>1, <3>1 DEF f, y
  <2>3. CASE i = Len(out)
    <3>1. u.role = "user" /\ x \in ToSet(Cells(H2, u.results))
      BY <1>18, <1>23, <2>1, <2>2, <2>3
    <3> QED BY <1>7, <1>18, <3>1, HoldsMore
  <2>4. CASE i # Len(out)
    <3>1. i \in DOMAIN f /\ f[i] = out[i]
      BY <1>7, <2>2, <2>4
    <3>2. Holds(H, f, x)
      BY <2>1, <3>1 DEF Holds
    <3>3. Holds(H2, f, x)
      BY <1>21, <3>2, HoldsStill
    <3> QED BY <1>7, <1>18, <3>3, HoldsMore
  <2> QED BY <2>3, <2>4
<1>25. ts[n + 1].role = "user" =>
         \A x \in ToSet(Cells(h, ts[n + 1].results)) : Holds(H2, Append(f, u), x)
  <2> HAVE ts[n + 1].role = "user"
  <2> TAKE x \in ToSet(Cells(h, ts[n + 1].results))
  <2>1. x \in ToSet(ys) /\ u.role = "user"
    BY <1>3, <1>15, <1>18 DEF t
  <2>2. x \in ToSet(Cells(H2, u.results))
    BY <1>18, <1>23, <2>1
  <2> QED BY <1>7, <1>18, <2>1, <2>2, HoldsMore
<1>26. \A k \in 1..n : ts[k].role = "user" =>
         \A x \in ToSet(Cells(h, ts[k].results)) : Holds(H2, Append(f, u), x)
  BY <1>11, <1>24
<1>27. \A i \in DOMAIN f, j \in (n + 2)..Len(ts) : Arrays(f[i]) \cap Arrays(ts[j]) = {}
  BY <1>5, <1>9
<1>28. next.out = Append(f, u) /\ next.heap = H2
  BY <1>2
<1>29. Carries(next, h, ts, n + 1)
  BY <1>4, <1>7, <1>8, <1>18, <1>19, <1>21, <1>22, <1>25, <1>26, <1>27, <1>28, CarriesOn
<1> QED BY <1>29 DEF next, t

(* mergeAdjacent: what a turn of the user held, a merged one holds. *)
LEMMA MergedHolds ==
  ASSUME NEW C, Closed(C), NEW h \in Heaps, NEW ts \in Seq(TurnsOf(C)),
         \A i \in DOMAIN ts : ts[i] \in TurnsIn(h, C), Distinct(ts)
  PROVE  LET merged == Adjoining!Fold([heap |-> h, out |-> <<>>], ts)
         IN \A x : Holds(h, ts, x) => Holds(merged.heap, merged.out, x)
<1> DEFINE none == [heap |-> h, out |-> <<>>]
           T == TurnsOf(C)
<1>0. ts \in Seq(T)
  OBVIOUS
<1>1. PICK g : /\ g[0] = none
               /\ \A i \in 1..Len(ts) : g[i] = Adjoin(g[i - 1], ts[i])
               /\ g[Len(ts)] = Adjoining!Fold(none, ts)
  <2> HIDE DEF none, T
  <2> QED BY <1>0, Adjoining!FoldChain
<1>2. Len(ts) \in Nat /\ DOMAIN ts = 1..Len(ts)
  <2> HIDE DEF T
  <2> QED BY <1>0
<1> DEFINE M == {n \in Nat : n <= Len(ts) =>
                   g[n] \in Gathered(C, h) /\ Merges(g[n].out, ts, n) /\ Carries(g[n], h, ts, n)}
<1>3. 0 \in M
  <2>1. Apart(<<>>) /\ Wider(h, h)
    BY WiderSame DEF Apart
  <2>2. none \in Gathered(C, h)
    BY <2>1 DEF Gathered
  <2>3. UserEnd(<<>>, Len(<<>>), 0) /\ UserEnd(ts, 0, 0)
    BY DEF UserEnd
  <2>4. Merges(<<>>, ts, 0)
    BY <2>3, UpToNone DEF Merges
  <2>5. none.out = <<>> /\ none.heap = h /\ DOMAIN <<>> = {}
    OBVIOUS
  <2> HIDE DEF none
  <2>6. Distinct(<<>>)
    BY <2>5 DEF Distinct
  <2>7. Carries(none, h, ts, 0)
    BY <2>5, <2>6 DEF Carries
  <2> QED BY <1>1, <2>2, <2>4, <2>5, <2>7
<1>4. ASSUME NEW n \in Nat, n \in M PROVE n + 1 \in M
  <2>1. CASE n + 1 <= Len(ts)
    <3>1. n + 1 \in 1..Len(ts) /\ (n + 1) - 1 = n /\ n <= Len(ts)
      BY <1>2, <2>1
    <3>2. g[n + 1] = Adjoin(g[n], ts[n + 1])
      BY <1>1, <3>1
    <3>3. g[n] \in Gathered(C, h) /\ Merges(g[n].out, ts, n) /\ Carries(g[n], h, ts, n)
      BY <1>4, <3>1
    <3>4. ts[n + 1] \in TurnsIn(h, C)
      BY <1>2, <3>1
    <3>5. /\ Adjoin(g[n], ts[n + 1]) \in Gathered(C, h)
          /\ Merges(Adjoin(g[n], ts[n + 1]).out, ts, n + 1)
      BY <2>1, <3>3, <3>4, AdjoinApart, AdjoinMerged
    <3>6. Carries(Adjoin(g[n], ts[n + 1]), h, ts, n + 1)
      BY <2>1, <3>3, CarriesApart, CarriesMerged
    <3> QED BY <3>2, <3>5, <3>6
  <2> QED BY <2>1
<1> HIDE DEF M
<1>5. Nat \subseteq M
  BY <1>3, <1>4, Induction
<1> DEFINE merged == g[Len(ts)]
<1>6. Carries(merged, h, ts, Len(ts))
  BY <1>2, <1>5 DEF M
<1> HIDE DEF merged
<1>7. ASSUME NEW x, Holds(h, ts, x) PROVE Holds(merged.heap, merged.out, x)
  <2>1. PICK i \in DOMAIN ts : ts[i].role = "user" /\ x \in ToSet(Cells(h, ts[i].results))
    BY <1>7 DEF Holds
  <2> QED BY <1>2, <1>6, <2>1 DEF Carries
<1> QED BY <1>1, <1>7 DEF merged, none

LEMMA RoundMerged ==
  ASSUME NEW ms \in Seq(CanonicalMessages), OneRound(ms),
         \A i \in DOMAIN ms : ms[i].role = "tool" => ms[i].answers # NoId
  PROVE  LET merged == MergeAdjacent(ConvertToUnified(ms))
         IN \A k \in DOMAIN ms : ms[k].role = "tool" =>
              Holds(merged.heap, merged.out, Result(ms[k]))
<1> DEFINE C == Honest(ms)
           unified == ConvertToUnified(ms)
           h == unified.heap
           ts == unified.out
           merged == MergeAdjacent(unified)
<1>1. Closed(C) /\ \A i \in DOMAIN ms : ms[i].content \in C
  BY HonestClosed
<1> HIDE DEF C
<1>2. <<>> \in C /\ C \subseteq Seq(Blocks)
  BY <1>1 DEF Closed
<1>3. unified \in Gathering(C)
  BY <1>1, <1>2, ConvertedFollows
<1>4. /\ Distinct(ts)
      /\ \A k \in DOMAIN ms : ms[k].role = "tool" => Holds(h, ts, Result(ms[k]))
  BY <1>1, <1>2, RoundConverted
<1> HIDE DEF unified
<1>5. h \in Heaps /\ ts \in Seq(TurnsOf(C)) /\ \A i \in DOMAIN ts : ts[i] \in TurnsIn(h, C)
  BY <1>3, GatheringFields
<1>6. merged = Adjoining!Fold([heap |-> h, out |-> <<>>], ts)
  BY AdjoinedIs
<1> HIDE DEF h, ts, merged
<1>7. \A x : Holds(h, ts, x) => Holds(merged.heap, merged.out, x)
  BY <1>1, <1>4, <1>5, <1>6, MergedHolds
<1> QED BY <1>4, <1>7 DEF merged, unified

(* What a turn of the user holds is sent: none of them follows the last. *)
LEMMA SentBrings ==
  ASSUME NEW ms \in Seq(CanonicalMessages), BuildPayload(ms) # NoPayload,
         NEW sent, sent = BuildPayload(ms).history \o BuildPayload(ms).current,
         NEW x, Holds(MergeAdjacent(ConvertToUnified(ms)).heap, MergeAdjacent(ConvertToUnified(ms)).out, x)
  PROVE  \E i \in DOMAIN sent : x \in ToSet(sent[i].results)
<1> DEFINE heap == MergeAdjacent(ConvertToUnified(ms)).heap
           merged == MergeAdjacent(ConvertToUnified(ms)).out
<1>1. PICK out \in Seq(TurnsOf(Honest(ms))), turns \in Seq(TurnsOf(Seq(Blocks))),
           d \in {0, 1}, last \in Nat :
        out = merged /\ Shifted(out, turns, d) /\ SentAs(ms, turns, sent, last)
  BY PayloadBuilt
<1>2. /\ last \in 1..Len(turns) /\ UserEnd(turns, Len(turns), last)
      /\ DOMAIN sent = 1..(last + 1)
      /\ \A i \in 1..last : turns[i].role = "user" => sent[i + 1].results = Cells(heap, turns[i].results)
  BY <1>1 DEF SentAs
<1>3. PICK i \in DOMAIN out : out[i].role = "user" /\ x \in ToSet(Cells(heap, out[i].results))
  BY <1>1 DEF Holds
<1>4. DOMAIN out = 1..Len(out) /\ Len(out) \in Nat
  <2> DEFINE R == TurnsOf(Honest(ms))
  <2> HIDE DEF R
  <2>1. out \in Seq(R)
    BY DEF R
  <2> QED BY <2>1
<1>5. Len(turns) = Len(out) + d /\ turns[i + d] = out[i]
  BY <1>1, <1>4 DEF Shifted
<1> HIDE DEF heap, merged
<1>6. i + d \in 1..last
  <2>1. i + d \in 1..Len(turns)
    BY <1>4, <1>5
  <2>2. i + d \notin (last + 1)..Len(turns)
    BY <1>2, <1>3, <1>5 DEF UserEnd
  <2> QED BY <2>1, <2>2
<1> DEFINE j == i + d
<1>7. j \in 1..last /\ turns[j] = out[i]
  BY <1>5, <1>6
<1> HIDE DEF j
<1>8. sent[j + 1].results = Cells(heap, turns[j].results)
  BY <1>2, <1>3, <1>7
<1>9. j + 1 \in DOMAIN sent
  BY <1>2, <1>7
<1> QED BY <1>3, <1>7, <1>8, <1>9

(* A message of a tool answers a call, and calls have names of their own. *)
LEMMA AnswersSomething ==
  ASSUME NEW ms \in Seq(CanonicalMessages), Paired(ms)
  PROVE  \A i \in DOMAIN ms : ms[i].role = "tool" => ms[i].answers # NoId
<1> TAKE i \in DOMAIN ms
<1> HAVE ms[i].role = "tool"
<1>1. PICK j \in 1..(i - 1) : \E k \in DOMAIN ms[j].calls : ms[j].calls[k].id = ms[i].answers
  BY DEF Paired
<1>2. PICK k \in DOMAIN ms[j].calls : ms[j].calls[k].id = ms[i].answers
  BY <1>1
<1>3. ms[j] \in CanonicalMessages
  OBVIOUS
<1>4. ms[j].calls \in Seq(ToolCalls)
  BY <1>3 DEF CanonicalMessages
<1>5. ms[j].calls[k] \in ToolCalls
  BY <1>4
<1> QED BY <1>2, <1>5 DEF ToolCalls

-----------------------------------------------------------------------------
(* Outcomes: what is understood of an answer. *)

NameMaps == UNION {[D -> Names] : D \in SUBSET Names}

(* The step of the mapping of tool names. *)
RegisterTool(mapping, name) == Register(mapping, Short, name)

Registering == INSTANCE FoldFacts WITH Op <- RegisterTool

LEMMA PutType ==
  ASSUME NEW f \in NameMaps, NEW key \in Names, NEW value \in Names
  PROVE  Put(f, key, value) \in NameMaps
<1>1. PICK D \in SUBSET Names : f \in [D -> Names]
  BY DEF NameMaps
<1>2. Put(f, key, value) \in [D \cup {key} -> Names]
  BY <1>1 DEF Put
<1>3. D \cup {key} \in SUBSET Names
  BY <1>1
<1> QED BY <1>2, <1>3 DEF NameMaps

(* The names Codex is given for the tools, and the way back. *)
LEMMA MappingType == Mapping \in [forward : NameMaps, reverse : NameMaps]
<1> DEFINE T == [forward : NameMaps, reverse : NameMaps]
           base == [forward |-> <<>>, reverse |-> <<>>]
<1>1. base \in T
  <2>1. <<>> \in [{} -> Names]
    OBVIOUS
  <2>2. {} \in SUBSET Names
    OBVIOUS
  <2>3. <<>> \in NameMaps
    BY <2>1, <2>2 DEF NameMaps
  <2> QED BY <2>3
<1>2. ASSUME NEW a \in T, NEW name \in ToSet(Tools) PROVE RegisterTool(a, name) \in T
  <2>1. name \in Names /\ Short[name] \in Names
    <3>1. \A i \in DOMAIN Tools : Tools[i] \in Names
      BY ProvidersAssumption
    <3>2. name \in Names
      BY <3>1 DEF ToSet
    <3> QED BY <3>2, ProvidersAssumption
  <2>2. CASE name = "" \/ name \in DOMAIN a.forward
    BY <2>2 DEF RegisterTool, Register
  <2>3. CASE ~(name = "" \/ name \in DOMAIN a.forward)
    <3>1. Put(a.forward, name, Short[name]) \in NameMaps
          /\ Put(a.reverse, Short[name], name) \in NameMaps
      BY <2>1, PutType
    <3> QED BY <2>3, <3>1 DEF RegisterTool, Register
  <2> QED BY <2>2, <2>3
<1>3. Tools \in Seq(ToSet(Tools))
  BY ProvidersAssumption DEF ToSet
<1>4. Registering!Fold(base, Tools) \in T
  <2> HIDE DEF T, base
  <2>1. \A a \in T, e \in ToSet(Tools) : RegisterTool(a, e) \in T
    BY <1>2
  <2> QED BY <1>1, <1>3, <2>1, Registering!FoldStaysIn
<1>5. Mapping = Registering!Fold(base, Tools)
  BY DEF Mapping, BuildToolNameMapping, FoldLeft, MapThenFoldSet, Registering!Fold,
         Registering!Largest, Max, RegisterTool
<1> QED BY <1>4, <1>5

LEMMA RenamedType ==
  ASSUME NEW name \in Names
  PROVE  Remap(Mapping, name) \in Names /\ Restore(Mapping, name) \in Names
<1> DEFINE f == Mapping.forward
           r == Mapping.reverse
<1>1. f \in NameMaps /\ r \in NameMaps
  BY MappingType
<1> HIDE DEF f, r
<1>2. (name \in DOMAIN f => f[name] \in Names) /\ (name \in DOMAIN r => r[name] \in Names)
  BY <1>1 DEF NameMaps
<1> QED
  BY <1>2 DEF Remap, Restore, f, r

AnswerItems == [type : {"function_call", "message", "reasoning"}, text : Texts, id : Nat,
                name : Names]

(* The items of the response, when it is completed. *)
Collecting == INSTANCE FoldFacts WITH Op <- CollectResponseItem

LEMMA CollectItemType ==
  ASSUME NEW c \in Outcomes, NEW item \in AnswerItems
  PROVE  CollectResponseItem(c, item) \in Outcomes
<1> DEFINE r == CollectResponseItem(c, item)
           use == ToolUse(item.id, item.name, ParsedInput(item.text))
           fresh == /\ item.type = "function_call" /\ item.id # 0 /\ item.name # ""
                    /\ \A i \in DOMAIN c.calls : c.calls[i].id # item.id
<1>1. item.text \in Texts /\ item.id \in Nat /\ item.name \in Names
  BY DEF AnswerItems
<1>2. use \in ToolUses
  BY <1>1, InputType DEF ToolUse, ToolUses
<1>3. CASE fresh
  <2>1. r = [c EXCEPT !.calls = Append(@, use)]
    BY <1>3 DEF CollectResponseItem
  <2> HIDE DEF r, use
  <2>2. Append(c.calls, use) \in Seq(ToolUses)
    BY <1>2, OutcomeFields
  <2>3. r \in Outcomes
    BY <2>1, <2>2, OutcomeWithCalls
  <2> QED BY <2>3 DEF r
<1>4. CASE item.type = "message" /\ c.text = <<>>
  <2>1. r = [c EXCEPT !.text = TrimSpace(item.text)]
    BY <1>4 DEF CollectResponseItem
  <2> HIDE DEF r
  <2>2. r \in Outcomes
    BY <1>1, <2>1, OutcomeWithText, TrimType
  <2> QED BY <2>2 DEF r
<1>5. CASE item.type = "reasoning" /\ c.thinking = <<>>
  <2>1. r = [c EXCEPT !.thinking = TrimSpace(item.text)]
    BY <1>5 DEF CollectResponseItem
  <2> HIDE DEF r
  <2>2. r \in Outcomes
    BY <1>1, <2>1, OutcomeWithText, TrimType
  <2> QED BY <2>2 DEF r
<1>6. CASE /\ ~fresh /\ ~(item.type = "message" /\ c.text = <<>>)
           /\ ~(item.type = "reasoning" /\ c.thinking = <<>>)
  <2>1. r = c
    BY <1>6 DEF CollectResponseItem
  <2> QED BY <2>1
<1> HIDE DEF r, fresh
<1>7. r \in Outcomes
  BY <1>3, <1>4, <1>5, <1>6 DEF r
<1> QED BY <1>7 DEF r

LEMMA CollectAllType ==
  ASSUME NEW c \in Outcomes, NEW items \in Seq(AnswerItems)
  PROVE  CollectEvent(c, [type |-> "completed", items |-> items]) \in Outcomes
<1>1. \A a \in Outcomes, e \in AnswerItems : CollectResponseItem(a, e) \in Outcomes
  BY CollectItemType
<1>2. Collecting!Fold(c, items) \in Outcomes
  BY <1>1, Collecting!FoldStaysIn
<1>3. FoldLeft(CollectResponseItem, c, items) = Collecting!Fold(c, items)
  BY DEF FoldLeft, MapThenFoldSet, Collecting!Fold, Collecting!Largest, Max
<1>4. CollectEvent(c, [type |-> "completed", items |-> items])
        = FoldLeft(CollectResponseItem, c, items)
  BY DEF CollectEvent
<1> QED BY <1>2, <1>3, <1>4

LEMMA CollectDeltaType ==
  ASSUME NEW c \in Outcomes, NEW piece \in Texts
  PROVE  /\ CollectEvent(c, Delta("text.delta", piece)) \in Outcomes
         /\ CollectEvent(c, Delta("reasoning.delta", piece)) \in Outcomes
<1>1. c.text \o piece \in Texts /\ c.thinking \o piece \in Texts
  BY OutcomeFields, JoinTexts
<1>2. CollectEvent(c, Delta("text.delta", piece)) = [c EXCEPT !.text = c.text \o piece]
  BY DEF CollectEvent, Delta
<1>3. CollectEvent(c, Delta("reasoning.delta", piece))
        = [c EXCEPT !.thinking = c.thinking \o piece]
  BY DEF CollectEvent, Delta
<1> QED BY <1>1, <1>2, <1>3, OutcomeWithText

LEMMA CollectDoneType ==
  ASSUME NEW c \in Outcomes, NEW item \in AnswerItems
  PROVE  CollectEvent(c, Done(item)) \in Outcomes
<1>1. CollectEvent(c, Done(item)) = CollectResponseItem(c, item)
  BY DEF CollectEvent, Done
<1> QED BY <1>1, CollectItemType

LEMMA FirstOfType == ASSUME NEW t \in Texts, NEW c PROVE FirstOf(t, c) \in 0..Len(t)
<1> DEFINE T == {i \in DOMAIN t : t[i] = c}
<1>1. Len(t) \in Nat /\ DOMAIN t = 1..Len(t)
  BY DEF Texts
<1>2. FirstOf(t, c) = IF T # {} THEN Min(T) ELSE 0
  BY DEF FirstOf
<1>3. T \subseteq Nat /\ \A x \in T : x \in 0..Len(t)
  BY <1>1
<1> HIDE DEF T
<1>4. CASE T = {}
  <2>1. FirstOf(t, c) = 0
    BY <1>2, <1>4
  <2> QED BY <1>1, <2>1
<1>5. CASE T # {}
  <2>1. Min(T) \in T
    BY <1>3, <1>5, Least
  <2>2. FirstOf(t, c) = Min(T)
    BY <1>2, <1>5
  <2> QED BY <1>3, <2>1, <2>2
<1> QED BY <1>4, <1>5

(* A tag that is stripped leaves a text. *)
LEMMA StripType ==
  ASSUME NEW t \in Texts PROVE StripOnce(t) \in Texts /\ ExtractThinking(t) \in Texts
<1> DEFINE a == FirstOf(t, "<")
           b == FirstOf(t, ">")
           n == Len(t)
<1>1. a \in 0..n /\ b \in 0..n /\ n \in Nat /\ t \in Seq(Characters)
  BY FirstOfType DEF Texts
<1> HIDE DEF a, b, n
<1>2. CASE a > 0 /\ b > a
  <2>1. SubSeq(t, 1, a - 1) \in Seq(Characters)
    <3>1. a - 1 \in Int /\ a - 1 <= n
      BY <1>1
    <3> QED BY <1>1, <3>1, SubSeqIn DEF n
  <2>2. SubSeq(t, b + 1, n) \in Seq(Characters)
    <3>1. b + 1 \in Nat /\ b + 1 >= 1 /\ n \in Int /\ n <= n
      BY <1>1
    <3> QED BY <1>1, <3>1, SubSeqIn DEF n
  <2>3. SubSeq(t, a + 1, b - 1) \in Seq(Characters)
    <3>1. a + 1 \in Nat /\ a + 1 >= 1 /\ b - 1 \in Int /\ b - 1 <= n
      BY <1>1
    <3> QED BY <1>1, <3>1, SubSeqIn DEF n
  <2> DEFINE rest == SubSeq(t, 1, a - 1) \o SubSeq(t, b + 1, n)
  <2>4. rest \in Texts /\ SubSeq(t, a + 1, b - 1) \in Texts
    BY <2>1, <2>2, <2>3 DEF Texts
  <2>5. StripOnce(t) = TrimSpace(rest) /\ ExtractThinking(t) = TrimSpace(SubSeq(t, a + 1, b - 1))
    BY <1>2 DEF StripOnce, ExtractThinking, Tagged, a, b, n
  <2> HIDE DEF rest
  <2> QED BY <2>4, <2>5, TrimType
<1>3. CASE ~(a > 0 /\ b > a)
  <2>1. StripOnce(t) = t /\ ExtractThinking(t) = <<>>
    BY <1>3 DEF StripOnce, ExtractThinking, Tagged, a, b
  <2> QED BY <2>1, SmallTexts
<1> QED BY <1>2, <1>3

LEMMA StrippedType == ASSUME NEW t \in Texts PROVE StripThinkingTags(t) \in Texts
<1>1. \A x \in Texts, c \in Characters : StripAgain(x, c) \in Texts
  BY StripType DEF StripAgain
<1>2. t \in Seq(Characters)
  BY DEF Texts
<1>3. Stripping!Fold(t, t) \in Texts
  BY <1>1, <1>2, Stripping!FoldStaysIn
<1>4. StripThinkingTags(t) = Stripping!Fold(t, t)
  BY DEF StripThinkingTags, FoldLeft, MapThenFoldSet, Stripping!Fold, Stripping!Largest, Max, StripAgain
<1> QED BY <1>3, <1>4

(* What Kiro's collector makes of all it parsed. *)
LEMMA CompletionType == ASSUME NEW p \in Parsers PROVE CollectCompletion(p) \in Outcomes
<1> DEFINE done == FinalizeToolCall(p)
           tagged == ExtractThinking(done.text)
           visible == TrimSpace(StripThinkingTags(done.text))
           thinking == IF IsBlank(tagged) THEN TrimSpace(done.thinking) ELSE tagged
<1>1. done \in Parsers
  BY FinalizeType
<1>2. done.text \in Texts /\ done.thinking \in Texts /\ done.calls \in Seq(ToolUses)
  BY <1>1 DEF Parsers
<1>3. CollectCompletion(p) = [text |-> visible, thinking |-> thinking, calls |-> done.calls]
  BY DEF CollectCompletion
<1> HIDE DEF done
<1>4. tagged \in Texts /\ visible \in Texts
  BY <1>2, StripType, StrippedType, TrimType
<1> HIDE DEF tagged, visible
<1>5. thinking \in Texts
  BY <1>2, <1>4, TrimType
<1> HIDE DEF thinking
<1> QED BY <1>2, <1>3, <1>4, <1>5 DEF Outcomes

LEMMA RestoredType ==
  ASSUME NEW calls \in Seq(ToolUses) PROVE Restored(calls) \in Seq(ToolUses)
<1> DEFINE t == [i \in DOMAIN calls |->
                   Rekeyed([calls[i] EXCEPT !.name = Restore(Mapping, @)])]
<1>1. \A c \in ToolUses : c.name \in Names /\ \A n \in Names : [c EXCEPT !.name = n] \in ToolUses
  BY DEF ToolUses
<1>2. \A i \in DOMAIN calls : calls[i] \in ToolUses
  OBVIOUS
<1>3. \A i \in DOMAIN calls :
        Rekeyed([calls[i] EXCEPT !.name = Restore(Mapping, @)]) \in ToolUses
  <2>1. \A i \in DOMAIN calls : [calls[i] EXCEPT !.name = Restore(Mapping, @)] \in ToolUses
    BY <1>1, <1>2, RenamedType
  <2> QED BY <2>1, RekeyedType
<1>4. t \in [DOMAIN calls -> ToolUses]
  BY <1>3
<1>5. Restored(calls) = IF req.provider = "kiro" THEN calls ELSE t
  BY DEF Restored
<1> HIDE DEF t
<1> QED BY <1>4, <1>5, MapInSeq

(* What the router makes of an outcome. *)
LEMMA ResponseType ==
  ASSUME NEW o \in Outcomes PROVE OutcomeToResponse(o) \in Responses
<1> DEFINE cc == [i \in DOMAIN o.calls |-> IF o.calls[i].name # "" THEN <<o.calls[i]>> ELSE <<>>]
           kept == FlattenSeq(cc)
<1>1. o.text \in Texts /\ o.thinking \in Texts /\ o.calls \in Seq(ToolUses)
  BY OutcomeFields
<1>2. cc \in [DOMAIN o.calls -> Seq(ToolUses)]
  <2>1. \A i \in DOMAIN o.calls : o.calls[i] \in ToolUses
    BY <1>1
  <2>2. <<>> \in Seq(ToolUses) /\ \A e \in ToolUses : <<e>> \in Seq(ToolUses)
    OBVIOUS
  <2>3. \A i \in DOMAIN o.calls :
          (IF o.calls[i].name # "" THEN <<o.calls[i]>> ELSE <<>>) \in Seq(ToolUses)
    BY <2>1, <2>2
  <2> QED BY <2>3
<1>3. OutcomeToResponse(o) = Response(o.text, o.thinking, kept)
  BY DEF OutcomeToResponse, Only
<1> HIDE DEF cc
<1>4. kept \in Seq(ToolUses)
  <2>1. cc \in Seq(Seq(ToolUses))
    BY <1>1, <1>2, MapInSeq
  <2> QED BY <2>1, FlattenInSeq
<1> HIDE DEF kept
<1> DEFINE reason == IF kept = <<>> THEN "stop" ELSE "tool_calls"
<1>5. reason \in {"stop", "tool_calls"}
  OBVIOUS
<1>6. OutcomeToResponse(o) = [text |-> o.text, thinking |-> o.thinking, calls |-> kept, stop |-> reason]
  BY <1>3 DEF Response
<1> HIDE DEF reason
<1> QED BY <1>1, <1>4, <1>5, <1>6 DEF Responses

LEMMA CollectedType ==
  ASSUME NEW o \in Outcomes
  PROVE  OutcomeToResponse([o EXCEPT !.calls = Restored(@)]) \in Responses
<1>1. Restored(o.calls) \in Seq(ToolUses)
  BY OutcomeFields, RestoredType
<1>2. [o EXCEPT !.calls = Restored(@)] \in Outcomes
  BY <1>1, OutcomeWithCalls
<1> QED BY <1>2, ResponseType

-----------------------------------------------------------------------------
(* What Codex says keeps them too. *)

(* What is kept while Codex speaks. *)
CodexUp == said \in Outcomes /\ mid \in Mids /\ heard \in Outcomes

LEMMA ToolNames == \A i \in DOMAIN Tools : Tools[i] \in Names
BY ProvidersAssumption

LEMMA CallItemType == ASSUME NEW use \in ToolUses PROVE CallItem(use) \in AnswerItems
<1>1. use.id \in Nat /\ use.name \in Names /\ use.input \in Texts
  BY DEF ToolUses
<1>2. NameFor("codex", use.name) \in Names
  BY <1>1, RenamedType DEF NameFor
<1> DEFINE name == NameFor("codex", use.name)
<1>3. name \in Names
  BY <1>2
<1> HIDE DEF name
<1>4. [type |-> "function_call", text |-> use.input, id |-> use.id, name |-> name] \in AnswerItems
  BY <1>1, <1>3 DEF AnswerItems
<1> QED BY <1>4 DEF CallItem, ItemOf, name

LEMMA TextItemType ==
  ASSUME NEW t \in Texts
  PROVE  /\ ItemOf("message", t, 0, "") \in AnswerItems
         /\ ItemOf("reasoning", t, 0, "") \in AnswerItems
BY SmallTexts DEF ItemOf, AnswerItems

LEMMA TellsKeeps ==
  ASSUME CodexUp, NEW e, CollectEvent(heard, e) \in Outcomes, NEW after \in Outcomes, Tells(e, after)
  PROVE  CodexUp'
<1>1. [mid EXCEPT !.events = @ + 1] \in Mids
  BY Zenon, MidSets DEF CodexUp, Mids
<1> QED BY <1>1 DEF CodexUp, Tells

LEMMA PieceIsText == \A piece \in Pieces : piece \in Texts
BY ProvidersAssumption

LEMMA TellsTextKeeps == ASSUME CodexUp, TellsDelta \/ TellsMessage \/ TellsReasoning PROVE CodexUp'
<1>1. heard \in Outcomes /\ said \in Outcomes /\ said.text \in Texts /\ said.thinking \in Texts
  BY OutcomeFields DEF CodexUp
<1>2. CASE TellsDelta
  <2>1. PICK piece \in Pieces :
          \/ Tells(Delta("text.delta", piece), [said EXCEPT !.text = @ \o piece])
          \/ Tells(Delta("reasoning.delta", piece), [said EXCEPT !.thinking = @ \o piece])
    BY <1>2 DEF TellsDelta
  <2>2. piece \in Texts
    BY PieceIsText
  <2>3. [said EXCEPT !.text = @ \o piece] \in Outcomes
        /\ [said EXCEPT !.thinking = @ \o piece] \in Outcomes
    BY <1>1, <2>2, JoinTexts, OutcomeWithText
  <2>4. /\ CollectEvent(heard, Delta("text.delta", piece)) \in Outcomes
        /\ CollectEvent(heard, Delta("reasoning.delta", piece)) \in Outcomes
    BY <1>1, <2>2, CollectDeltaType
  <2> DEFINE d == Delta("text.delta", piece)
             r == Delta("reasoning.delta", piece)
             a == [said EXCEPT !.text = @ \o piece]
             b == [said EXCEPT !.thinking = @ \o piece]
  <2>5. /\ Tells(d, a) \/ Tells(r, b)
        /\ a \in Outcomes /\ b \in Outcomes
        /\ CollectEvent(heard, d) \in Outcomes /\ CollectEvent(heard, r) \in Outcomes
    BY <2>1, <2>3, <2>4
  <2> HIDE DEF d, r, a, b
  <2> QED BY <2>5, TellsKeeps
<1>3. CASE TellsMessage
  <2>1. PICK t \in IF IsBlank(said.text) THEN Pieces ELSE {said.text} :
          Tells(Done(ItemOf("message", t, 0, "")), [said EXCEPT !.text = t])
    BY <1>3 DEF TellsMessage
  <2>2. t \in Texts
    BY <1>1, PieceIsText
  <2> DEFINE e == Done(ItemOf("message", t, 0, ""))
             a == [said EXCEPT !.text = t]
  <2>3. a \in Outcomes /\ CollectEvent(heard, e) \in Outcomes /\ Tells(e, a)
    BY <1>1, <2>1, <2>2, OutcomeWithText, TextItemType, CollectDoneType
  <2> HIDE DEF e, a
  <2> QED BY <2>3, TellsKeeps
<1>4. CASE TellsReasoning
  <2>1. PICK t \in IF IsBlank(said.thinking) THEN Pieces ELSE {said.thinking} :
          Tells(Done(ItemOf("reasoning", t, 0, "")), [said EXCEPT !.thinking = t])
    BY <1>4 DEF TellsReasoning
  <2>2. t \in Texts
    BY <1>1, PieceIsText
  <2> DEFINE e == Done(ItemOf("reasoning", t, 0, ""))
             a == [said EXCEPT !.thinking = t]
  <2>3. a \in Outcomes /\ CollectEvent(heard, e) \in Outcomes /\ Tells(e, a)
    BY <1>1, <2>1, <2>2, OutcomeWithText, TextItemType, CollectDoneType
  <2> HIDE DEF e, a
  <2> QED BY <2>3, TellsKeeps
<1> QED BY <1>2, <1>3, <1>4

LEMMA TellsCallKeeps == ASSUME CodexUp, TellsCall PROVE CodexUp'
<1>1. PICK i \in DOMAIN Tools, input \in Inputs :
        LET use == ToolUse(mid.events + 1, Tools[i], input) IN
        \/ Tells(Done(CallItem(use)), [said EXCEPT !.calls = Append(@, use)])
        \/ /\ mid' = [mid EXCEPT !.events = @ + 1, !.silent = Append(@, use)]
           /\ UNCHANGED <<said, heard>>
  BY DEF TellsCall
<1> DEFINE use == ToolUse(mid.events + 1, Tools[i], input)
<1>2. \/ Tells(Done(CallItem(use)), [said EXCEPT !.calls = Append(@, use)])
      \/ /\ mid' = [mid EXCEPT !.events = @ + 1, !.silent = Append(@, use)]
         /\ UNCHANGED <<said, heard>>
  BY <1>1
<1>3. heard \in Outcomes /\ said \in Outcomes /\ mid \in Mids /\ mid.events \in Nat
      /\ mid.silent \in Seq(ToolUses) /\ said.calls \in Seq(ToolUses)
  BY OutcomeFields, MidFields DEF CodexUp
<1>4. use \in ToolUses
  <2>1. Tools[i] \in Names /\ input \in Texts
    BY ToolNames, ProvidersAssumption
  <2> QED BY <1>3, <2>1 DEF ToolUse, ToolUses
<1> HIDE DEF use
<1>5. Append(said.calls, use) \in Seq(ToolUses) /\ Append(mid.silent, use) \in Seq(ToolUses)
  BY <1>3, <1>4
<1>6. CASE Tells(Done(CallItem(use)), [said EXCEPT !.calls = Append(@, use)])
  <2> DEFINE e == Done(CallItem(use))
             a == [said EXCEPT !.calls = Append(@, use)]
  <2>1. a \in Outcomes /\ CollectEvent(heard, e) \in Outcomes /\ Tells(e, a)
    BY <1>3, <1>4, <1>5, <1>6, OutcomeWithCalls, CallItemType, CollectDoneType
  <2> HIDE DEF e, a
  <2> QED BY <2>1, TellsKeeps
<1>7. CASE /\ mid' = [mid EXCEPT !.events = @ + 1, !.silent = Append(@, use)]
           /\ UNCHANGED <<said, heard>>
  <2> DEFINE s == Append(mid.silent, use)
  <2>1. s \in Seq(ToolUses) /\ mid' = [mid EXCEPT !.events = @ + 1, !.silent = s]
    BY <1>5, <1>7
  <2> HIDE DEF s
  <2>2. mid' \in Mids
    BY Zenon, <1>3, <2>1, MidSets DEF Mids
  <2> QED BY <1>3, <1>7, <2>2 DEF CodexUp
<1> QED BY <1>2, <1>6, <1>7

LEMMA TellsEndKeeps == ASSUME CodexUp, TellsEnd PROVE CodexUp'
<1> DEFINE both == said.calls \o mid.silent
           all == [said EXCEPT !.calls = both]
           talk == <<ItemOf("reasoning", all.thinking, 0, ""), ItemOf("message", all.text, 0, "")>>
           finished == [i \in DOMAIN all.calls |-> CallItem(all.calls[i])]
           items == talk \o finished
<1>1. heard \in Outcomes /\ said \in Outcomes /\ mid \in Mids
      /\ mid.silent \in Seq(ToolUses) /\ said.calls \in Seq(ToolUses)
  BY OutcomeFields, MidFields DEF CodexUp
<1>2. /\ \E list \in {items, <<>>} :
           heard' = CollectEvent(heard, [type |-> "completed", items |-> list])
      /\ said' = all /\ mid' = [mid EXCEPT !.over = TRUE]
  BY DEF TellsEnd
<1>3. both \in Seq(ToolUses)
  BY <1>1
<1> HIDE DEF both
<1>4. all \in Outcomes
  BY <1>1, <1>3, OutcomeWithCalls
<1> HIDE DEF all
<1>5. all.text \in Texts /\ all.thinking \in Texts /\ all.calls \in Seq(ToolUses)
  BY <1>4, OutcomeFields
<1>6. talk \in Seq(AnswerItems)
  <2> DEFINE a == ItemOf("reasoning", all.thinking, 0, "")
             b == ItemOf("message", all.text, 0, "")
  <2>1. a \in AnswerItems /\ b \in AnswerItems
    BY <1>5, TextItemType
  <2> HIDE DEF a, b
  <2>2. <<a, b>> \in Seq(AnswerItems)
    BY <2>1
  <2> QED BY <2>2 DEF a, b
<1>7. finished \in Seq(AnswerItems)
  <2>1. \A i \in DOMAIN all.calls : all.calls[i] \in ToolUses
    BY <1>5
  <2>2. \A i \in DOMAIN all.calls : CallItem(all.calls[i]) \in AnswerItems
    BY <2>1, CallItemType
  <2>3. finished \in [DOMAIN all.calls -> AnswerItems]
    BY <2>2
  <2> HIDE DEF finished
  <2> QED BY <1>5, <2>3, MapInSeq
<1> HIDE DEF talk, finished
<1>8. items \in Seq(AnswerItems) /\ <<>> \in Seq(AnswerItems)
  BY <1>6, <1>7
<1> HIDE DEF items
<1>9. heard' \in Outcomes
  BY <1>1, <1>2, <1>8, CollectAllType
<1>10. mid' \in Mids
  BY Zenon, <1>1, <1>2, MidSets DEF Mids
<1> QED BY <1>2, <1>4, <1>9, <1>10 DEF CodexUp

LEMMA CodexSaysKeeps == ASSUME CodexUp, CodexSays PROVE CodexUp'
BY TellsTextKeeps, TellsCallKeeps, TellsEndKeeps DEF CodexSays

-----------------------------------------------------------------------------
(* The invariant, part by part. *)

(* From here on it is known which route a request has and, once prepared,   *)
(* which provider.                                                          *)
Served == {"decoded", "prepared", "speaking", "collected", "streaming"}

Routed ==
  /\ stage \in {"arrived", "keyed"} => req.route \notin {"nowhere", "health"}
  /\ stage = "admitted" => req.route \in Chats \cup {"count"}
  /\ stage \in Served => req.route \in Chats
  /\ stage \in Served \ {"decoded"} => req.provider \in {"codex", "kiro"}

LEMMA RoutedFirst == Init => Routed
BY DEF Init, Routed, Served

LEMMA AdmissionRouted ==
  ASSUME IInv, Routed, Arrive \/ ReadKey \/ ReadMode \/ ChangeSettings PROVE Routed'
<1>1. CASE Arrive
  <2>1. PICK route \in Routes, credential \in Keys \cup {NoKey, Malformed},
             method \in {"GET", "POST", "OPTIONS"} :
          /\ req' = [req EXCEPT !.route = route, !.method = method,
                                !.credential = credential,
                                !.admissible = Admits(settings, credential)]
          /\ CASE route = "nowhere" -> Reply(404)
               [] route # "nowhere" /\ method = "OPTIONS" -> Reply(204)
               [] route = "health" /\ method # "OPTIONS" -> Reply(200)
               [] OTHER -> Goto("arrived") /\ UNCHANGED <<translated, reply>>
    BY <1>1 DEF Arrive
  <2>2. req'.route = route
    BY <2>1 DEF IInv, Requests
  <2>3. stage' = "ended" \/ (stage' = "arrived" /\ route \notin {"nowhere", "health"})
    BY <2>1 DEF Reply, Goto
  <2> QED BY <2>2, <2>3 DEF Routed, Served
<1>2. CASE ReadKey
  <2>1. req'.route = req.route /\ stage = "arrived" /\ stage' \in {"keyed", "ended"}
    BY <1>2 DEF ReadKey, IInv, Requests, Reply, Goto
  <2> QED BY <2>1 DEF Routed, Served
<1>3. CASE ReadMode
  <2>1. UNCHANGED req /\ stage = "keyed" /\ (stage' = "ended" \/ (stage' = "admitted" /\ req.route # "info"))
    BY <1>3 DEF ReadMode, Reply, Goto
  <2>2. req.route \in Routes
    BY DEF IInv, Requests
  <2> QED BY <2>1, <2>2 DEF Routed, Served, Routes
<1>4. CASE ChangeSettings
  <2>1. req'.route = req.route /\ stage \in {"arrived", "keyed"} /\ UNCHANGED stage
    BY <1>4 DEF ChangeSettings, IInv, Requests
  <2> QED BY <2>1 DEF Routed, Served
<1> QED BY <1>1, <1>2, <1>3, <1>4

LEMMA TranslationRouted ==
  ASSUME IInv, Routed, Unreadable \/ Decode \/ Prepare \/ Send PROVE Routed'
<1>1. CASE Unreadable
  BY <1>1 DEF Unreadable, Reply, Goto, Routed, Served
<1>2. CASE Decode
  <2> DEFINE protocol == IF req.route = "count" THEN "messages" ELSE req.route
  <2>1. \/ Reply(400) \/ Reply(200)
        \/ Goto("decoded") /\ req.route # "count"
    <3>1. PICK body \in Bodies[protocol] :
            CASE protocol = "messages" /\ ToIR(protocol, body.system, body.items) = <<>> -> Reply(400)
              [] req.route = "count" /\ ToIR(protocol, body.system, body.items) # <<>> -> Reply(200)
              [] OTHER -> Goto("decoded") /\ messages' = ToIR(protocol, body.system, body.items)
                          /\ UNCHANGED <<payload, reply>>
      BY <1>2 DEF Decode
    <3> DEFINE decoded == ToIR(protocol, body.system, body.items)
    <3>2. (CASE protocol = "messages" /\ decoded = <<>> -> Reply(400)
             [] req.route = "count" /\ decoded # <<>> -> Reply(200)
             [] OTHER -> Goto("decoded") /\ messages' = decoded /\ UNCHANGED <<payload, reply>>)
      BY <3>1
    <3>3. req.route = "count" => protocol = "messages"
      OBVIOUS
    <3> HIDE DEF decoded, protocol
    <3> QED BY <3>2, <3>3
  <2>3. UNCHANGED req /\ stage = "admitted"
    BY <1>2 DEF Decode
  <2>4. stage' = "ended" \/ (stage' = "decoded" /\ req.route # "count")
    BY <2>1 DEF Reply, Goto
  <2> QED BY <2>3, <2>4 DEF Routed, Served
<1>3. CASE Prepare
  <2>1. PICK name \in ModelNames :
          \/ UNCHANGED req /\ stage' = "ended"
          \/ /\ ResolveModel(name, Aliases) # Unresolved
             /\ req' = [req EXCEPT !.provider = ResolveModel(name, Aliases).provider]
             /\ stage' = "prepared"
    BY <1>3 DEF Prepare, Reply, Goto
  <2> DEFINE found == ResolveModel(name, Aliases).provider
  <2>2. \/ UNCHANGED req /\ stage' = "ended"
        \/ found \in {"codex", "kiro"} /\ req' = [req EXCEPT !.provider = found] /\ stage' = "prepared"
    BY <2>1, ResolvedIsKnown
  <2> HIDE DEF found
  <2>3. stage = "decoded"
    BY <1>3 DEF Prepare
  <2> QED BY <2>2, <2>3 DEF Routed, Served, IInv, Requests
<1>4. CASE Send
  <2>1. /\ stage = "prepared" /\ stage' \in {"ended", "speaking"}
        /\ req'.route = req.route /\ req'.provider = req.provider
    BY <1>4 DEF Send, Reply, Goto, IInv, Requests
  <2> QED BY <2>1 DEF Routed, Served
<1> QED BY <1>1, <1>2, <1>3, <1>4

LEMMA AnswerRouted ==
  ASSUME Routed,
         \/ Hear \/ KiroEnds \/ CodexEnds \/ TryAgain \/ GiveUp
         \/ AnswerWhole \/ StartStream \/ Write \/ ClientLeaves
  PROVE  Routed'
<1>1. UNCHANGED req /\ stage \in {"speaking", "collected", "streaming"}
  BY DEF Hear, KiroEnds, CodexEnds, TryAgain, GiveUp, AnswerWhole, StartStream, Write,
         ClientLeaves, Collected
<1>2. stage' \in {"speaking", "collected", "streaming", "ended", "left"}
  BY DEF Hear, KiroEnds, CodexEnds, TryAgain, GiveUp, AnswerWhole, StartStream, Write,
         ClientLeaves, Collected, Reply, Goto
<1> QED BY <1>1, <1>2 DEF Routed, Served

Statuses == {0, 200, 204, 400, 401, 403, 404, 405, 429, 500, 503}

(* The counters and the status. *)
Counted == changes \in 0..MaxChanges /\ refusals \in Nat /\ reply.status \in Statuses

LEMMA CountedFirst == Init => Counted
BY SizesAssumption DEF Init, Counted, NoReply, Statuses

LEMMA CountedNext == ASSUME Counted, Next PROVE Counted'
<1> DEFINE Same == UNCHANGED <<changes, refusals>>
<1>0. \A s \in Statuses : Reply(s) => reply'.status \in Statuses
  BY DEF Reply, NoReply
<1>1. CASE Arrive
  <2>1. Same /\ (UNCHANGED reply \/ Reply(404) \/ Reply(204) \/ Reply(200))
    BY <1>1 DEF Arrive, Rest, asked
  <2> QED BY <1>0, <2>1 DEF Counted, Statuses
<1>2. CASE ReadKey
  <2>1. Same /\ (UNCHANGED reply \/ Reply(400))
    BY <1>2 DEF ReadKey, Rest, asked
  <2> QED BY <1>0, <2>1 DEF Counted, Statuses
<1>3. CASE ReadMode
  <2>1. Same /\ (UNCHANGED reply \/ Reply(403) \/ Reply(401) \/ Reply(200) \/ Reply(405))
    BY <1>3 DEF ReadMode, Rest, asked
  <2> QED BY <1>0, <2>1 DEF Counted, Statuses
<1>4. CASE ChangeSettings
  <2>1. changes < MaxChanges /\ changes' = changes + 1 /\ UNCHANGED <<refusals, reply>>
    BY <1>4 DEF ChangeSettings
  <2> QED BY <2>1, SizesAssumption DEF Counted
<1>5. CASE Unreadable
  <2>1. Same /\ Reply(400)
    BY <1>5 DEF Unreadable, Rest, asked
  <2> QED BY <1>0, <2>1 DEF Counted, Statuses
<1>6. CASE Decode
  <2>1. Same /\ (UNCHANGED reply \/ Reply(400) \/ Reply(200))
    BY <1>6 DEF Decode, Rest, asked
  <2> QED BY <1>0, <2>1 DEF Counted, Statuses
<1>7. CASE Prepare
  <2>1. \/ Same /\ UNCHANGED reply
        \/ UNCHANGED changes /\ refusals' = refusals + 1 /\ Reply(400)
    BY <1>7 DEF Prepare, asked
  <2> QED BY <1>0, <2>1 DEF Counted, Statuses
<1>8. CASE Send
  <2>1. Same /\ (UNCHANGED reply \/ Reply(400))
    BY <1>8 DEF Send, asked
  <2> QED BY <1>0, <2>1 DEF Counted, Statuses
<1>9. CASE GiveUp
  <2>1. Same /\ \E status \in {400, 401, 429, 500, 503} : Reply(status)
    BY <1>9 DEF GiveUp, asked
  <2> QED BY <1>0, <2>1 DEF Counted, Statuses
<1>10. CASE Hear \/ KiroEnds \/ CodexEnds \/ TryAgain \/ StartStream \/ ClientLeaves
  <2>1. Same /\ UNCHANGED reply
    BY <1>10 DEF Hear, KiroEnds, CodexEnds, TryAgain, StartStream, ClientLeaves, Collected, asked
  <2> QED BY <2>1 DEF Counted
<1>11. CASE AnswerWhole
  <2>1. Same /\ reply'.status = 200
    BY <1>11 DEF AnswerWhole, asked
  <2> QED BY <2>1 DEF Counted, Statuses
<1>12. CASE Write
  <2>1. Same /\ (UNCHANGED reply \/ reply' = [NoReply EXCEPT !.status = 200])
    BY <1>12 DEF Write, asked
  <2> QED BY <2>1 DEF Counted, Statuses, NoReply
<1> QED BY <1>1, <1>2, <1>3, <1>4, <1>5, <1>6, <1>7, <1>8, <1>9, <1>10, <1>11, <1>12 DEF Next

PayloadOf(ms, provider) == IF provider = "kiro" THEN BuildPayload(ms) ELSE BuildRequestPayload(ms)

(* What waits to be sent was made from a paired history, by the builder of  *)
(* its provider.                                                            *)
Translated ==
  /\ messages \in Seq(CanonicalMessages) /\ Paired(messages)
  /\ stage = "prepared" => payload = PayloadOf(messages, req.provider)

LEMMA NothingPaired == <<>> \in Seq(CanonicalMessages) /\ Paired(<<>>)
BY DEF Paired

LEMMA TranslatedFirst == Init => Translated
BY NothingPaired DEF Init, Translated

LEMMA RepliedTranslated == ASSUME NEW status, Reply(status) PROVE Translated'
<1>1. messages' = <<>> /\ stage' = "ended"
  BY DEF Reply, Goto
<1> QED BY <1>1, NothingPaired DEF Translated, Paired

LEMMA SameTranslated ==
  ASSUME Translated, UNCHANGED messages, stage' # "prepared" PROVE Translated'
BY DEF Translated, Paired

LEMMA TranslatedNext == ASSUME IInv, Routed, Translated, Next PROVE Translated'
<1>1. CASE Arrive
  <2>1. (UNCHANGED messages /\ stage' = "arrived") \/ Reply(404) \/ Reply(204) \/ Reply(200)
    BY <1>1 DEF Arrive, translated, Goto
  <2> QED BY <2>1, RepliedTranslated, SameTranslated
<1>2. CASE ReadKey
  <2>1. (UNCHANGED messages /\ stage' = "keyed") \/ Reply(400)
    BY <1>2 DEF ReadKey, translated, Goto
  <2> QED BY <2>1, RepliedTranslated, SameTranslated
<1>3. CASE ReadMode
  <2>1. (UNCHANGED messages /\ stage' = "admitted") \/ (\E status \in Statuses : Reply(status))
    BY <1>3 DEF ReadMode, translated, Goto, Statuses
  <2> QED BY <2>1, RepliedTranslated, SameTranslated
<1>4. CASE ChangeSettings
  <2>1. UNCHANGED messages /\ stage' # "prepared"
    BY <1>4 DEF ChangeSettings, translated
  <2> QED BY <2>1, SameTranslated
<1>5. CASE Unreadable
  <2>1. Reply(400)
    BY <1>5 DEF Unreadable
  <2> QED BY <2>1, RepliedTranslated
<1>6. CASE Decode
  <2> DEFINE protocol == IF req.route = "count" THEN "messages" ELSE req.route
  <2>1. PICK body \in Bodies[protocol] :
          \/ Reply(400) \/ Reply(200)
          \/ stage' = "decoded" /\ messages' = ToIR(protocol, body.system, body.items)
    BY <1>6 DEF Decode, Goto
  <2>2. stage = "admitted"
    BY <1>6 DEF Decode
  <2>3. protocol \in Chats
    BY <2>2 DEF Routed, Chats
  <2>4. /\ ToIR(protocol, body.system, body.items) \in Seq(CanonicalMessages)
        /\ Paired(ToIR(protocol, body.system, body.items))
    <3> HIDE DEF protocol
    <3> QED BY <2>3, ToIRType DEF Chats
  <2> DEFINE ms == ToIR(protocol, body.system, body.items)
  <2>5. /\ ms \in Seq(CanonicalMessages) /\ Paired(ms)
        /\ Reply(400) \/ Reply(200) \/ (stage' = "decoded" /\ messages' = ms)
    BY <2>1, <2>4
  <2> HIDE DEF ms, protocol
  <2>6. CASE stage' = "decoded" /\ messages' = ms
    BY <2>5, <2>6 DEF Translated, Paired
  <2> QED BY <2>5, <2>6, RepliedTranslated
<1>7. CASE Prepare
  <2>1. \/ Reply(400)
        \/ \E name \in ModelNames :
             /\ payload' = IF ResolveModel(name, Aliases).provider = "kiro" THEN BuildPayload(messages)
                           ELSE BuildRequestPayload(messages)
             /\ req' = [req EXCEPT !.provider = ResolveModel(name, Aliases).provider]
             /\ UNCHANGED messages
    BY <1>7 DEF Prepare
  <2>2. CASE Reply(400)
    BY <2>2, RepliedTranslated
  <2>3. CASE ~Reply(400)
    <3>1. PICK name \in ModelNames :
             /\ payload' = IF ResolveModel(name, Aliases).provider = "kiro" THEN BuildPayload(messages)
                           ELSE BuildRequestPayload(messages)
             /\ req' = [req EXCEPT !.provider = ResolveModel(name, Aliases).provider]
             /\ UNCHANGED messages
      BY <2>1, <2>3
    <3> DEFINE found == ResolveModel(name, Aliases).provider
    <3>2. /\ payload' = IF found = "kiro" THEN BuildPayload(messages) ELSE BuildRequestPayload(messages)
          /\ req' = [req EXCEPT !.provider = found] /\ UNCHANGED messages
      BY <3>1
    <3> HIDE DEF found
    <3>3. req'.provider = found
      BY <3>2 DEF IInv, Requests
    <3>4. payload' = PayloadOf(messages, found) /\ messages' = messages
      BY <3>2 DEF PayloadOf
    <3>5. payload' = PayloadOf(messages', req'.provider)
      BY <3>3, <3>4
    <3>6. messages' \in Seq(CanonicalMessages) /\ Paired(messages')
      BY <3>4 DEF Translated
    <3> QED BY <3>5, <3>6 DEF Translated, Paired
  <2> QED BY <2>2, <2>3
<1>8. CASE Send
  <2>1. Reply(400) \/ (messages' = <<>> /\ stage' = "speaking")
    BY <1>8 DEF Send, Goto
  <2>2. CASE messages' = <<>> /\ stage' = "speaking"
    BY <2>2, NothingPaired DEF Translated, Paired
  <2> QED BY <2>1, <2>2, RepliedTranslated
<1>9. CASE GiveUp
  <2>1. \E status \in {400, 401, 429, 500, 503} : Reply(status)
    BY <1>9 DEF GiveUp
  <2> QED BY <2>1, RepliedTranslated
<1>10. CASE \/ Hear \/ KiroEnds \/ CodexEnds \/ TryAgain
            \/ AnswerWhole \/ StartStream \/ Write \/ ClientLeaves
  <2>1. UNCHANGED messages
    BY <1>10 DEF Hear, KiroEnds, CodexEnds, TryAgain, AnswerWhole, StartStream, Write,
                 ClientLeaves, Collected, translated
  <2>2. stage' # "prepared"
    BY <1>10 DEF Hear, KiroEnds, CodexEnds, TryAgain, AnswerWhole, StartStream, Write,
                 ClientLeaves, Collected, Goto
  <2> QED BY <2>1, <2>2, SameTranslated
<1> QED BY <1>1, <1>2, <1>3, <1>4, <1>5, <1>6, <1>7, <1>8, <1>9, <1>10 DEF Next

(* What the provider said and what was heard of it. *)
HeardOK ==
  /\ UpstreamOK /\ response \in Responses
  /\ stage = "speaking" => heard \in IF req.provider = "kiro" THEN Parsers ELSE Outcomes

LEMMA HeardFirst == Init => HeardOK
<1>1. NoResponse \in Responses
  <2>1. <<>> \in Texts /\ <<>> \in Seq(ToolUses)
    BY DEF Texts
  <2> QED BY <2>1 DEF NoResponse, Response, Responses
<1> QED BY <1>1, Nothing, MidTyped DEF Init, HeardOK, UpstreamOK

LEMMA StartsTyped ==
  ASSUME NEW provider, Start(provider)
  PROVE  UpstreamOK' /\ heard' \in IF provider = "kiro" THEN Parsers ELSE Outcomes
BY Nothing, MidTyped DEF Start, UpstreamOK

LEMMA HeardKept ==
  ASSUME HeardOK, UNCHANGED <<upstream, response>>, stage' # "speaking" PROVE HeardOK'
<1>1. UNCHANGED <<said, mid, heard, response>>
  BY DEF upstream
<1> QED BY <1>1 DEF HeardOK, UpstreamOK

LEMMA HeardNext == ASSUME IInv, Routed, HeardOK, Next PROVE HeardOK'
<1>1. CASE Arrive \/ ReadKey \/ ReadMode \/ ChangeSettings \/ Unreadable \/ Decode \/ Prepare
  <2>1. UNCHANGED <<upstream, response>>
    BY Zenon, <1>1 DEF Arrive, ReadKey, ReadMode, ChangeSettings, Unreadable, Decode, Prepare, Rest,
                answer
  <2>2. stage' # "speaking"
    BY Zenon, <1>1 DEF Arrive, ReadKey, ReadMode, ChangeSettings, Unreadable, Decode, Prepare, Reply,
                Goto
  <2> QED BY <2>1, <2>2, HeardKept
<1>2. CASE Send
  <2>1. CASE NothingToSend
    <3>1. UNCHANGED <<upstream, response>> /\ stage' # "speaking"
      BY <1>2, <2>1 DEF Send, Reply, Goto, answer
    <3> QED BY <3>1, HeardKept
  <2>2. CASE ~NothingToSend
    <3>1. Start(req.provider) /\ UNCHANGED response /\ req'.provider = req.provider
      BY <1>2, <2>2 DEF Send, answer, IInv, Requests
    <3>2. UpstreamOK' /\ heard' \in IF req.provider = "kiro" THEN Parsers ELSE Outcomes
      BY <3>1, StartsTyped
    <3> QED BY <3>1, <3>2 DEF HeardOK, UpstreamOK
  <2> QED BY <2>1, <2>2
<1>3. CASE Hear
  <2>1. /\ IF req.provider = "kiro" THEN KiroSays ELSE CodexSays
        /\ stage = "speaking" /\ UNCHANGED <<req, response, stage>>
    BY <1>3 DEF Hear, answer
  <2>2. CASE req.provider = "kiro"
    <3>1. KiroUp
      BY <2>1, <2>2 DEF HeardOK, UpstreamOK, KiroUp
    <3>2. KiroUp'
      BY <2>1, <2>2, <3>1, KiroSaysKeeps
    <3> QED BY <2>1, <2>2, <3>2 DEF HeardOK, UpstreamOK, KiroUp
  <2>3. CASE req.provider # "kiro"
    <3>1. CodexUp
      BY <2>1, <2>3 DEF HeardOK, UpstreamOK, CodexUp
    <3>2. CodexUp'
      BY <2>1, <2>3, <3>1, CodexSaysKeeps
    <3> QED BY <2>1, <2>3, <3>2 DEF HeardOK, UpstreamOK, CodexUp
  <2> QED BY <2>2, <2>3
<1>4. ASSUME NEW outcome \in Outcomes, NEW over \in BOOLEAN, Collected(outcome, over)
      PROVE  HeardOK'
  <2>1. response' \in Responses
    BY <1>4, CollectedType DEF Collected
  <2>2. stage' # "speaking" /\ said' = said /\ heard' = CollectorInit
    BY <1>4 DEF Collected, Goto
  <2>3. mid' \in Mids
    <3>1. mid' = [Mid EXCEPT !.over = over]
      BY <1>4 DEF Collected
    <3> QED BY <3>1, MidTyped DEF Mids, MidsWith
  <2> QED BY <2>1, <2>2, <2>3, Nothing DEF HeardOK, UpstreamOK
<1>5. CASE KiroEnds
  <2>1. /\ stage = "speaking" /\ req.provider = "kiro"
        /\ Collected(CollectCompletion(heard), Complete)
    BY <1>5 DEF KiroEnds
  <2>2. KiroUp
    BY <2>1 DEF HeardOK, UpstreamOK, KiroUp
  <2>3. CollectCompletion(heard) \in Outcomes /\ Complete \in BOOLEAN
    BY <2>2, CompletionType DEF KiroUp, Complete
  <2> QED BY <1>4, <2>1, <2>3
<1>6. CASE CodexEnds
  <2>1. stage = "speaking" /\ req.provider = "codex" /\ Collected(heard, mid.over)
    BY <1>6 DEF CodexEnds
  <2>2. heard \in Outcomes /\ mid.over \in BOOLEAN
    BY <2>1 DEF HeardOK, UpstreamOK, Mids, MidsWith
  <2> QED BY <1>4, <2>1, <2>2
<1>7. CASE TryAgain
  <2>1. Start(req.provider) /\ UNCHANGED <<req, response, stage>>
    BY <1>7 DEF TryAgain, answer
  <2>2. UpstreamOK' /\ heard' \in IF req.provider = "kiro" THEN Parsers ELSE Outcomes
    BY <2>1, StartsTyped
  <2> QED BY <2>1, <2>2 DEF HeardOK, UpstreamOK
<1>8. CASE GiveUp
  <2>1. /\ said' = Silence /\ mid' = Mid /\ heard' = CollectorInit
        /\ UNCHANGED response /\ stage' # "speaking"
    BY <1>8 DEF GiveUp, Reply, Goto, answer
  <2> QED BY <2>1, Nothing, MidTyped DEF HeardOK, UpstreamOK
<1>9. CASE AnswerWhole \/ StartStream \/ Write
  <2>1. UNCHANGED <<upstream, response>>
    BY <1>9 DEF AnswerWhole, StartStream, Write, answer
  <2>2. stage' # "speaking"
    BY <1>9 DEF AnswerWhole, StartStream, Write, Goto
  <2> QED BY <2>1, <2>2, HeardKept
<1>10. CASE ClientLeaves
  <2>1. /\ said' \in {Silence, said} /\ mid' = Mid /\ heard' = CollectorInit
        /\ UNCHANGED response /\ stage' # "speaking"
    BY <1>10 DEF ClientLeaves, Goto, answer
  <2> QED BY <2>1, Nothing, MidTyped DEF HeardOK, UpstreamOK
<1> QED BY <1>1, <1>2, <1>3, <1>5, <1>6, <1>7, <1>8, <1>9, <1>10 DEF Next

(* A stream under way is in one of the shapes above; one that is over       *)
(* nests.                                                                   *)
Streamed ==
  /\ enc \in ResponsesStates \cup MessageStates /\ script \in Seq(Ops)
  /\ frames \in Seq(Frames) /\ Nests(frames)
  /\ stage \notin {"streaming", "ended", "left"} => frames = <<>>
  /\ stage = "streaming" => StreamOK(req.route, script, enc, frames)

LEMMA NothingNests == Nests(<<>>) /\ <<>> \in Seq(Frames)
BY ShapeNone DEF Shape

LEMMA EncodersFirst ==
  /\ ResponsesStreamInit \in ResponsesStates /\ ResponsesGood(ResponsesStreamInit, <<>>)
  /\ ~ResponsesStreamInit.messageOpen
  /\ MessageStreamInit \in MessageStates /\ ThinkingGood(MessageStreamInit, <<>>)
  /\ SpeakingGood(MessageStreamInit, <<>>) /\ ~MessageStreamInit.textOpen
<1>1. ResponsesStreamInit \in ResponsesStates /\ ~ResponsesStreamInit.messageOpen
      /\ ResponsesStreamInit.nextIndex = 0
  BY DEF ResponsesStreamInit, ResponsesStates
<1>2. /\ MessageStreamInit \in MessageStates /\ ~MessageStreamInit.textOpen
      /\ ~MessageStreamInit.thinkingOpen
      /\ MessageStreamInit.nextIndex = 0 /\ MessageStreamInit.thinkingNext = 0
  BY DEF MessageStreamInit, MessageStates
<1>3. ResponsesGood(ResponsesStreamInit, <<>>)
  BY <1>1, ShapeNone DEF ResponsesGood
<1>4. MessageStreamInit.nextIndex = 0 /\ MessageStreamInit.thinkingNext = 0
  BY <1>2
<1>5. ThinkingGood(MessageStreamInit, <<>>)
  BY <1>2, <1>4, ShapeNone DEF ThinkingGood
<1>6. SpeakingGood(MessageStreamInit, <<>>)
  BY <1>2, <1>4, ShapeNone DEF SpeakingGood
<1> QED BY <1>1, <1>2, <1>3, <1>5, <1>6

LEMMA StreamedFirst == Init => Streamed
<1>1. <<>> \in Seq(Ops)
  OBVIOUS
<1> QED BY <1>1, EncodersFirst, NothingNests DEF Init, Streamed

LEMMA StreamedKept ==
  ASSUME Streamed, UNCHANGED <<script, enc, frames>>, stage' # "streaming",
         stage' \notin {"ended", "left"} => stage \notin {"streaming", "ended", "left"}
  PROVE  Streamed'
<1>1. frames' = frames /\ script' = script /\ enc' = enc
  OBVIOUS
<1>2. Nests(frames)'
  <2>1. Nests(frames)
    BY DEF Streamed
  <2> QED BY <1>1, <2>1 DEF Nests, Fits, OpenIn, Bounds
<1>3. /\ enc' \in ResponsesStates \cup MessageStates /\ script' \in Seq(Ops)
      /\ frames' \in Seq(Frames)
      /\ stage' \notin {"streaming", "ended", "left"} => frames' = <<>>
  BY <1>1 DEF Streamed
<1> QED BY <1>2, <1>3 DEF Streamed

LEMMA StartsStreamed ==
  ASSUME Routed, HeardOK, Streamed, StartStream PROVE Streamed'
<1>1. /\ stage = "collected" /\ stage' = "streaming" /\ script' = Script
      /\ enc' = IF req.route = "messages" THEN MessageStreamInit ELSE ResponsesStreamInit
      /\ frames' = frames /\ req' = req
  BY DEF StartStream, Goto
<1>2. /\ req.route \in Chats /\ frames = <<>> /\ response \in Responses
      /\ ChunkSize \in Nat \ {0}
  BY <1>1, SizesAssumption DEF Routed, Served, HeardOK, Streamed
<1>3. Fresh(script', <<>>)
  BY DEF Fresh
<1>4. CASE req.route \in {"chat", "completions"}
  <2>1. /\ Flows(script') /\ OpsOf(script') \subseteq ChatOps
    <3>1. CASE req.route = "chat"
      <4>1. script' = StreamOpenAIChat(response, ChunkSize)
        BY <1>1, <3>1 DEF Script
      <4> QED BY <1>2, <4>1, ChatFlows
    <3>2. CASE req.route = "completions"
      <4>1. script' = StreamOpenAICompletions(response, ChunkSize)
        BY <1>1, <3>2 DEF Script
      <4> QED BY <1>2, <4>1, CompletionsFlow
    <3> QED BY <1>4, <3>1, <3>2
  <2>2. enc' = ResponsesStreamInit /\ req'.route # "responses" /\ req'.route # "messages"
    BY <1>1, <1>4
  <2>3. ChatStream(script', enc', <<>>)
    BY <2>1, <2>2, EncodersFirst, ShapeNone DEF ChatStream
  <2>4. StreamOK(req'.route, script', enc', frames')
    BY <1>1, <1>2, <1>3, <2>1, <2>2, <2>3 DEF StreamOK
  <2>5. script' \in Seq(Ops)
    BY <2>1 DEF Flows, Between
  <2> QED BY <1>1, <1>2, <2>2, <2>4, <2>5, EncodersFirst, NothingNests DEF Streamed, Nests, Fits, OpenIn, Bounds
<1>5. CASE req.route = "responses"
  <2>1. script' = StreamOpenAIResponses(response, ChunkSize)
    BY <1>1, <1>5 DEF Script
  <2>2. /\ Flows(script') /\ OpsOf(script') \subseteq ResponsesOps
        /\ "text" \in OpsOf(script') => "close" \in OpsOf(script')
    BY <1>2, <2>1, ResponsesFlow
  <2>3. enc' = ResponsesStreamInit /\ req'.route \notin {"chat", "completions", "messages"}
    BY <1>1, <1>5
  <2>4. ResponsesStream(script', enc', <<>>)
    BY <2>2, <2>3, EncodersFirst DEF ResponsesStream
  <2>5. StreamOK(req'.route, script', enc', frames')
    BY <1>1, <1>2, <1>3, <2>2, <2>3, <2>4 DEF StreamOK
  <2>6. script' \in Seq(Ops)
    BY <2>2 DEF Flows, Between
  <2> QED BY <1>1, <1>2, <2>3, <2>5, <2>6, EncodersFirst, NothingNests DEF Streamed, Nests, Fits, OpenIn, Bounds
<1>6. CASE req.route = "messages"
  <2>1. script' = StreamAnthropicMessages(response, ChunkSize)
    BY <1>1, <1>6 DEF Script
  <2>2. /\ Flows(script') /\ OpsOf(script') \subseteq MessagesOps
        /\ "think" \in OpsOf(script') => "prepare" \in OpsOf(script')
        /\ "text" \in OpsOf(script') => "close" \in OpsOf(script')
    BY <1>2, <2>1, MessagesFlow
  <2>3. enc' = MessageStreamInit /\ req'.route \notin {"chat", "completions", "responses"}
    BY <1>1, <1>6
  <2>4. MessagesStream(script', enc', <<>>)
    BY <2>2, <2>3, EncodersFirst DEF MessagesStream
  <2>5. StreamOK(req'.route, script', enc', frames')
    BY <1>1, <1>2, <1>3, <2>2, <2>3, <2>4 DEF StreamOK
  <2>6. script' \in Seq(Ops)
    BY <2>2 DEF Flows, Between
  <2> QED BY <1>1, <1>2, <2>3, <2>5, <2>6, EncodersFirst, NothingNests DEF Streamed, Nests, Fits, OpenIn, Bounds
<1> QED BY <1>2, <1>4, <1>5, <1>6 DEF Chats

LEMMA WritesStreamed == ASSUME Routed, Streamed, Write PROVE Streamed'
<1> DEFINE step == Emitted(Head(script))
           gs == frames \o step.frames
           t == Tail(script)
<1>1. /\ stage = "streaming" /\ frames' = gs /\ enc' = step.state /\ script' = t
      /\ Len(script) > 1 => stage' = stage
      /\ ~(Len(script) > 1) => stage' = "ended"
      /\ req' = req
  BY DEF Write, Goto
<1>2. req.route \in Chats /\ StreamOK(req.route, script, enc, frames) /\ Flows(script)
  BY <1>1 DEF Routed, Served, Streamed, StreamOK
<1>3. Fresh(script, frames)
  BY <1>2 DEF StreamOK
<1>4. /\ Nests(gs) /\ gs \in Seq(Frames) /\ step.state \in ResponsesStates \cup MessageStates
      /\ Len(script) > 1 =>
           /\ req.route \in {"chat", "completions"} => ChatStream(t, step.state, gs)
           /\ req.route = "responses" => ResponsesStream(t, step.state, gs)
           /\ req.route = "messages" => MessagesStream(t, step.state, gs)
  <2>1. CASE req.route \in {"chat", "completions"}
    <3>1. step.state = enc /\ step.frames = IRStreamToChunk(Head(script))
      BY <2>1 DEF Emitted, Sent
    <3>2. ChatStream(script, enc, frames)
      BY <1>2, <2>1 DEF StreamOK
    <3>3. /\ Nests(gs) /\ gs \in Seq(Frames)
          /\ Len(script) > 1 => ChatStream(t, step.state, gs)
      BY <1>2, <1>3, <3>1, <3>2, ChatWrites
    <3>4. step.state \in ResponsesStates
      BY <3>1, <3>2 DEF ChatStream
    <3> QED BY <2>1, <3>3, <3>4
  <2>2. CASE req.route = "responses"
    <3>1. step = EmitResponses(enc, Head(script))
      BY <2>2 DEF Emitted
    <3>2. ResponsesStream(script, enc, frames)
      BY <1>2, <2>2 DEF StreamOK
    <3>3. /\ Nests(gs) /\ gs \in Seq(Frames) /\ step.state \in ResponsesStates
          /\ Len(script) > 1 => ResponsesStream(t, step.state, gs)
      BY <1>2, <1>3, <3>1, <3>2, ResponsesWrites
    <3> QED BY <2>2, <3>3
  <2>3. CASE req.route = "messages"
    <3>1. step = EmitMessages(enc, Head(script))
      BY <2>3 DEF Emitted
    <3>2. MessagesStream(script, enc, frames)
      BY <1>2, <2>3 DEF StreamOK
    <3>3. /\ Nests(gs) /\ gs \in Seq(Frames) /\ step.state \in MessageStates
          /\ Len(script) > 1 => MessagesStream(t, step.state, gs)
      BY <1>2, <1>3, <3>1, <3>2, MessagesWrites
    <3> QED BY <2>3, <3>3
  <2> QED BY <1>2, <2>1, <2>2, <2>3 DEF Chats
<1>5. t \in Seq(Ops) /\ (Len(script) > 1 => Flows(t) /\ Fresh(t, gs))
  BY <1>2, FlowsOn, FreshOn
<1> HIDE DEF step, gs, t
<1>6. Len(script) > 1 => StreamOK(req.route, t, step.state, gs)
  BY <1>4, <1>5 DEF StreamOK
<1>7. Nests(frames') /\ frames' \in Seq(Frames) /\ enc' \in ResponsesStates \cup MessageStates
      /\ script' \in Seq(Ops)
  BY <1>1, <1>4, <1>5
<1>8. CASE Len(script) > 1
  <2>1. StreamOK(req'.route, script', enc', frames') /\ stage' = "streaming"
    BY <1>1, <1>6, <1>8
  <2> QED BY <1>7, <2>1 DEF Streamed, Nests, Fits, OpenIn, Bounds
<1>9. CASE ~(Len(script) > 1)
  <2>1. stage' = "ended"
    BY <1>1, <1>9
  <2> QED BY <1>7, <2>1 DEF Streamed, Nests, Fits, OpenIn, Bounds
<1> QED BY <1>8, <1>9

LEMMA StreamedNext == ASSUME Routed, HeardOK, Streamed, Next PROVE Streamed'
<1>1. CASE Arrive \/ ReadKey \/ ReadMode \/ ChangeSettings \/ Unreadable \/ Decode \/ Prepare \/ Send
  <2>1. UNCHANGED <<script, enc, frames>> /\ stage \notin {"streaming", "ended", "left"}
    BY Zenon, <1>1 DEF Arrive, ReadKey, ReadMode, ChangeSettings, Unreadable, Decode, Prepare, Send,
                Rest, answer
  <2>2. stage' # "streaming"
    BY Zenon, <1>1 DEF Arrive, ReadKey, ReadMode, ChangeSettings, Unreadable, Decode, Prepare, Send,
                Reply, Goto
  <2> QED BY <2>1, <2>2, StreamedKept
<1>2. CASE Hear \/ KiroEnds \/ CodexEnds \/ TryAgain \/ GiveUp \/ AnswerWhole
  <2>1. UNCHANGED <<script, enc, frames>> /\ stage \notin {"streaming", "ended", "left"}
    BY <1>2 DEF Hear, KiroEnds, CodexEnds, TryAgain, GiveUp, AnswerWhole, Collected, answer
  <2>2. stage' # "streaming"
    BY <1>2 DEF Hear, KiroEnds, CodexEnds, TryAgain, GiveUp, AnswerWhole, Collected, Reply, Goto
  <2> QED BY <2>1, <2>2, StreamedKept
<1>3. CASE ClientLeaves
  <2>1. UNCHANGED <<script, enc, frames>> /\ stage' = "left"
    BY <1>3 DEF ClientLeaves, Goto, answer
  <2> QED BY <2>1, StreamedKept
<1> QED BY <1>1, <1>2, <1>3, StartsStreamed, WritesStreamed DEF Next

-----------------------------------------------------------------------------
(* The theorems. *)

(* The inductive invariant. *)
Whole == IInv /\ Routed /\ Counted /\ Translated /\ HeardOK /\ Streamed

(* Each part needs the parts before it: the streams are typed because the   *)
(* responses are, those because the collectors are, and all of them because *)
(* the route and the provider of a request do not change under way.         *)
LEMMA WholeNext == ASSUME Whole, [Next]_vars PROVE Whole'
<1>1. CASE Next
  <2>1. IInv'
    BY <1>1, ArriveKeeps, ReadKeyKeeps, ReadModeKeeps, ChangeKeeps, LaterKeeps DEF Next, Whole
  <2>2. Routed'
    BY <1>1, AdmissionRouted, TranslationRouted, AnswerRouted DEF Next, Whole
  <2> QED
    BY <1>1, <2>1, <2>2, CountedNext, TranslatedNext, HeardNext, StreamedNext DEF Whole
<1>2. CASE UNCHANGED vars
  <2>1. /\ UNCHANGED <<settings, changes, refusals, stage, req, messages, payload, said, mid, heard>>
        /\ UNCHANGED <<response, script, enc, frames, reply>>
    BY <1>2 DEF vars, asked, translated, upstream, answer
  <2>2. IInv' /\ Routed' /\ Counted'
    BY <2>1 DEF Whole, IInv, SettingsOK, Judged, ServedIsAllowed, Requests, Routed, Counted
  <2>3. Translated'
    BY <2>1 DEF Whole, Translated, Paired, PayloadOf
  <2>4. HeardOK'
    BY <2>1 DEF Whole, HeardOK, UpstreamOK
  <2>5. Streamed'
    <3>1. Streamed' <=> Streamed
      BY <2>1 DEF Streamed, StreamOK, Nests, Fits, OpenIn, Bounds
    <3> QED BY <3>1 DEF Whole
  <2> QED BY <2>2, <2>3, <2>4, <2>5 DEF Whole
<1> QED BY <1>1, <1>2

LEMMA WholeIsOK == ASSUME Whole PROVE TypeOK
BY DEF Whole, IInv, SettingsOK, Requests, Counted, Statuses, Translated, HeardOK, Streamed, TypeOK

(* The types of everything the gateway holds of a request: what decode.go   *)
(* and the builders make, what the parsers of the two providers understand, *)
(* the frames of the encoders.                                              *)
THEOREM GatewayTypes == Spec => []TypeOK
<1>1. Init => Whole
  BY InitHolds, RoutedFirst, CountedFirst, TranslatedFirst, HeardFirst, StreamedFirst DEF Whole
<1> QED BY <1>1, WholeNext, WholeIsOK, PTL DEF Spec

(* The stream encoders, for any answer and any size of chunks: a client     *)
(* reads blocks one after the other, numbered upwards, continued only while *)
(* they are open, and all closed at the end.                                *)
THEOREM BlocksAreNested == Spec => []BlocksNest
<1>1. Init => Whole
  BY InitHolds, RoutedFirst, CountedFirst, TranslatedFirst, HeardFirst, StreamedFirst DEF Whole
<1>2. Whole => BlocksNest
  BY NestsIsBlocksNest DEF Whole, Streamed
<1> QED BY <1>1, <1>2, WholeNext, PTL DEF Spec

LEMMA OutputsInOrder == ASSUME Whole PROVE CallsPrecedeOutputs
<1> SUFFICES ASSUME ForCodex PROVE InOrder(payload)
  BY DEF CallsPrecedeOutputs, InOrder
<1>1. stage = "prepared" /\ req.provider = "codex"
  BY DEF ForCodex
<1>2. payload = BuildRequestPayload(messages) /\ messages \in Seq(CanonicalMessages)
      /\ Paired(messages)
  BY <1>1 DEF Whole, Translated, PayloadOf
<1> QED BY <1>2, InputInOrder

(* sanitizeToolHistory and buildInput (codex), for any conversation a       *)
(* client may send: an output Codex is sent answers a call it was sent      *)
(* before, and no other output answers it again.                            *)
THEOREM OutputsFollowCalls == Spec => []CallsPrecedeOutputs
<1>1. Init => Whole
  BY InitHolds, RoutedFirst, CountedFirst, TranslatedFirst, HeardFirst, StreamedFirst DEF Whole
<1> QED BY <1>1, OutputsInOrder, WholeNext, PTL DEF Spec

LEMMA KiroIsSent ==
  ASSUME Whole, ForKiro
  PROVE  /\ messages \in Seq(CanonicalMessages) /\ payload = BuildPayload(messages)
         /\ BuildPayload(messages) # NoPayload
<1>1. stage = "prepared" /\ req.provider = "kiro" /\ ~NothingToSend
  BY DEF ForKiro
<1>2. payload = BuildPayload(messages) /\ messages \in Seq(CanonicalMessages)
  BY <1>1 DEF Whole, Translated, PayloadOf
<1>3. payload # NoPayload
  BY <1>1 DEF NothingToSend
<1> QED BY <1>2, <1>3

LEMMA KiroAlternates == ASSUME Whole PROVE KiroTurnsAlternate
<1> SUFFICES ASSUME ForKiro
             PROVE  /\ \A i \in 2..Len(Turns) :
                         Turns[i].role = IF i % 2 = 0 THEN "user" ELSE "assistant"
                    /\ \A i \in 3..(Len(Turns) - 1) :
                         Turns[i].text = Filler =>
                           \E m \in ToSet(messages) : VisibleText(m.content) = Filler
                    /\ Last(Turns).role = "user"
  BY DEF KiroTurnsAlternate
<1>1. /\ messages \in Seq(CanonicalMessages) /\ payload = BuildPayload(messages)
      /\ BuildPayload(messages) # NoPayload
  BY KiroIsSent
<1>2. Turns = BuildPayload(messages).history \o BuildPayload(messages).current
  BY <1>1 DEF Turns
<1> QED BY <1>1, <1>2, SentAlternates

(* mergeAdjacent, ensureFirstUser: the speakers alternate in what Kiro is   *)
(* sent, beginning and ending with the user, and no turn is there only to   *)
(* keep them apart.                                                         *)
THEOREM KiroAlternation == Spec => []KiroTurnsAlternate
<1>1. Init => Whole
  BY InitHolds, RoutedFirst, CountedFirst, TranslatedFirst, HeardFirst, StreamedFirst DEF Whole
<1> QED BY <1>1, KiroAlternates, WholeNext, PTL DEF Spec

LEMMA KiroInOrder == ASSUME Whole PROVE PayloadKeepsOrder
<1> SUFFICES ASSUME ForKiro
             PROVE  \E k \in 0..Len(messages) :
                      /\ SaidInTurns(Tail(Turns)) =
                           SpokenBy(SubSeq(messages, 1, k), {"user", "assistant"})
                      /\ SpokenBy(SubSeq(messages, k + 1, Len(messages)), {"user"}) = <<>>
  BY DEF PayloadKeepsOrder
<1>1. /\ messages \in Seq(CanonicalMessages) /\ payload = BuildPayload(messages)
      /\ BuildPayload(messages) # NoPayload
  BY KiroIsSent
<1>2. Turns = BuildPayload(messages).history \o BuildPayload(messages).current
  BY <1>1 DEF Turns
<1> QED BY <1>1, <1>2, SentInOrder

(* BuildPayload, for any conversation a client may send: what was said      *)
(* reaches Kiro in the order it was said in, nothing twice and nothing lost *)
(* but what the assistant says after the last turn of the user.             *)
THEOREM KiroKeepsOrder == Spec => []PayloadKeepsOrder
<1>1. Init => Whole
  BY InitHolds, RoutedFirst, CountedFirst, TranslatedFirst, HeardFirst, StreamedFirst DEF Whole
<1> QED BY <1>1, KiroInOrder, WholeNext, PTL DEF Spec

LEMMA OneRoundKept == ASSUME Whole PROVE OneRoundKeepsResults
<1> SUFFICES ASSUME ForKiro, OneRound(messages), NEW x \in Brought(messages)
             PROVE  x \in Delivered
  BY DEF OneRoundKeepsResults
<1>1. /\ messages \in Seq(CanonicalMessages) /\ payload = BuildPayload(messages)
      /\ BuildPayload(messages) # NoPayload
  BY KiroIsSent
<1>2. Turns = BuildPayload(messages).history \o BuildPayload(messages).current
  BY <1>1 DEF Turns
<1>3. \A i \in DOMAIN messages : messages[i].role = "tool" => messages[i].answers # NoId
  BY <1>1, AnswersSomething DEF Whole, Translated
<1>4. PICK k \in DOMAIN messages : messages[k].role = "tool" /\ x = Result(messages[k])
  <2>1. PICK m \in ToSet(messages) : m.role = "tool" /\ x = Result(m)
    BY DEF Brought, Result
  <2> QED BY <2>1 DEF ToSet
<1>5. \E i \in DOMAIN Turns : x \in ToSet(Turns[i].results)
  BY <1>1, <1>2, <1>3, <1>4, RoundMerged, SentBrings
<1> QED BY <1>5 DEF Delivered

(* convertToUnified, flush, mergeAdjacent: when the tools were used in one  *)
(* round, no result is overwritten or left out on its way to Kiro, and each *)
(* goes with the call it answers.                                           *)
THEOREM RoundReachesKiro == Spec => []OneRoundKeepsResults
<1>1. Init => Whole
  BY InitHolds, RoutedFirst, CountedFirst, TranslatedFirst, HeardFirst, StreamedFirst DEF Whole
<1> QED BY <1>1, OneRoundKept, WholeNext, PTL DEF Spec
=============================================================================
