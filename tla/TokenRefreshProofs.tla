------------------------- MODULE TokenRefreshProofs -------------------------
(***************************************************************************)
(* What holds of the renewal of tokens for any number of accounts, calls,  *)
(* tokens, rejections and faults.                                          *)
(***************************************************************************)
EXTENDS TokenRefresh, AccountStoreProofs

AllPlaces == Places.renew \cup Places.quota
FrameType == [op : {"renew", "quota"}, forced : BOOLEAN, at : AllPlaces,
              sees : Nat, got : 0..MaxTokens]
CallType == [for : Accounts, frames : Seq(FrameType), result : Results]

(* How many frames a frame may yet put on top of itself without a token     *)
(* being rejected.                                                          *)
Need(f) ==
  CASE f.op = "renew" /\ f.forced -> 2
    [] f.op = "quota" /\ f.at = "start" -> IF f.forced THEN 3 ELSE 1
    [] OTHER -> 0

(* The frames of a call that has met r rejections, its top first.           *)
Nested(s, r) ==
  \A i \in 1..Len(s) :
    /\ s[i].at \in Places[s[i].op]
    /\ Len(s) - i + 1 + Need(s[i]) <= 4 + 3 * r

Contents == [acc : [Accounts -> Account], present : SUBSET Accounts,
             token : [Accounts -> 0..MaxTokens]]
GoodContents ==
  {m \in Contents : \A a \in Accounts : /\ Agrees(m.acc[a])
                                        /\ a \in m.present => m.token[a] # 0}
Files == [reads : {"whole", "cut", "empty"}, content : GoodContents]

FilesTyped ==
  /\ Memory \in GoodContents /\ file \in Files
  /\ mode \in {"up", "down", "recovering"}
  /\ copy \in {"none", "made", "failed"} /\ warned \in BOOLEAN /\ faults \in 0..MaxFaults
TokensTyped ==
  /\ provider \in [Accounts -> {"codex", "kiro"}]
  /\ expired \subseteq Accounts /\ dropped \subseteq Accounts
  /\ honoured \in [Accounts -> SUBSET (1..MaxTokens)]
  /\ issued \in [Accounts -> 1..MaxTokens]
  /\ loops \subseteq {"quota", "tokens"}
CallsTyped ==
  /\ call \in [Calls -> CallType]
  /\ rejected \in [Calls -> 0..MaxRejections]
  /\ \A c \in Calls : Nested(call[c].frames, rejected[c])

Typed == FilesTyped /\ TokensTyped /\ CallsTyped

-----------------------------------------------------------------------------
(* Stacks.                                                                  *)

LEMMA NeedIs == ASSUME NEW f PROVE Need(f) \in 0..3
BY DEF Need

LEMMA Popped ==
  ASSUME NEW S, NEW s \in Seq(S), s # <<>>
  PROVE  /\ Tail(s) \in Seq(S) /\ Len(Tail(s)) = Len(s) - 1
         /\ \A i \in 1..(Len(s) - 1) : Tail(s)[i] = s[i + 1]
         /\ Head(s) = s[1] /\ Head(s) \in S /\ Len(s) \in Nat \ {0}
OBVIOUS

LEMMA Replaced ==
  ASSUME NEW S, NEW s \in Seq(S), s # <<>>, NEW f \in S
  PROVE  /\ <<f>> \o Tail(s) \in Seq(S) /\ Len(<<f>> \o Tail(s)) = Len(s)
         /\ (<<f>> \o Tail(s))[1] = f
         /\ \A i \in 2..Len(s) : (<<f>> \o Tail(s))[i] = s[i]
OBVIOUS

LEMMA Pushed ==
  ASSUME NEW S, NEW s \in Seq(S), s # <<>>, NEW f \in S, NEW g \in S
  PROVE  /\ <<g, f>> \o Tail(s) \in Seq(S) /\ Len(<<g, f>> \o Tail(s)) = Len(s) + 1
         /\ (<<g, f>> \o Tail(s))[1] = g /\ (<<g, f>> \o Tail(s))[2] = f
         /\ \A i \in 3..(Len(s) + 1) : (<<g, f>> \o Tail(s))[i] = s[i - 1]
OBVIOUS

LEMMA PopNests ==
  ASSUME NEW s \in Seq(FrameType), s # <<>>, NEW r \in Nat, Nested(s, r)
  PROVE  Nested(Tail(s), r)
<1> SUFFICES ASSUME NEW i \in 1..Len(Tail(s))
             PROVE  /\ Tail(s)[i].at \in Places[Tail(s)[i].op]
                    /\ Len(Tail(s)) - i + 1 + Need(Tail(s)[i]) <= 4 + 3 * r
  BY DEF Nested
<1>1. i + 1 \in 1..Len(s) /\ Tail(s)[i] = s[i + 1] /\ Len(Tail(s)) = Len(s) - 1
  BY Popped
<1>2. Len(s) - (i + 1) + 1 + Need(s[i + 1]) <= 4 + 3 * r
  BY <1>1 DEF Nested
<1> QED
  BY <1>1, <1>2, NeedIs, Popped DEF Nested

LEMMA ReplaceNests ==
  ASSUME NEW s \in Seq(FrameType), s # <<>>, NEW r \in Nat, Nested(s, r),
         NEW f \in FrameType, f.at \in Places[f.op], Need(f) <= Need(Head(s))
  PROVE  Nested(<<f>> \o Tail(s), r)
<1> DEFINE t == <<f>> \o Tail(s)
<1>1. Len(t) = Len(s) /\ t[1] = f /\ \A i \in 2..Len(s) : t[i] = s[i]
  BY Replaced
<1>2. Head(s) = s[1] /\ Len(s) \in Nat \ {0}
  BY Popped
<1>3. ASSUME NEW i \in 1..Len(t)
      PROVE  t[i].at \in Places[t[i].op] /\ Len(t) - i + 1 + Need(t[i]) <= 4 + 3 * r
  <2>1. CASE i = 1
    <3>1. Len(s) - 1 + 1 + Need(s[1]) <= 4 + 3 * r
      BY <1>2 DEF Nested
    <3> QED
      BY <1>1, <1>2, <2>1, <3>1, NeedIs
  <2>2. CASE i # 1
    BY <1>1, <1>2, <2>2 DEF Nested
  <2> QED
    BY <2>1, <2>2
<1> QED
  BY <1>3 DEF Nested

(* A call is put on top of a frame that has moved on, with or without a     *)
(* rejection.                                                               *)
LEMMA PushNests ==
  ASSUME NEW s \in Seq(FrameType), s # <<>>, NEW r \in Nat, NEW q \in Nat, r <= q,
         Nested(s, r), NEW f \in FrameType, f.at \in Places[f.op], Need(f) <= Need(Head(s)),
         NEW g \in FrameType, g.at \in Places[g.op],
         1 + Need(g) <= Need(Head(s)) + 3 * (q - r)
  PROVE  Nested(<<g, f>> \o Tail(s), q)
<1> DEFINE t == <<g, f>> \o Tail(s)
<1>1. Len(t) = Len(s) + 1 /\ t[1] = g /\ t[2] = f /\ \A i \in 3..(Len(s) + 1) : t[i] = s[i - 1]
  BY Pushed
<1>2. Head(s) = s[1] /\ Len(s) \in Nat \ {0}
  BY Popped
<1>3. Len(s) + Need(s[1]) <= 4 + 3 * r
  BY <1>2, NeedIs DEF Nested
<1>4. ASSUME NEW i \in 1..Len(t)
      PROVE  t[i].at \in Places[t[i].op] /\ Len(t) - i + 1 + Need(t[i]) <= 4 + 3 * q
  <2>1. CASE i = 1
    BY <1>1, <1>2, <1>3, <2>1, NeedIs
  <2>2. CASE i = 2
    BY <1>1, <1>2, <1>3, <2>2, NeedIs
  <2>3. CASE i > 2
    <3>1. t[i] = s[i - 1] /\ i - 1 \in 1..Len(s)
      BY <1>1, <1>2, <2>3
    <3>2. Len(s) - (i - 1) + 1 + Need(s[i - 1]) <= 4 + 3 * r /\ s[i - 1].at \in Places[s[i - 1].op]
      BY <3>1 DEF Nested
    <3>3. Len(t) - i + 1 = Len(s) - (i - 1) + 1 /\ 3 * r <= 3 * q
      BY <1>1, <1>2
    <3>4. Len(s) - (i - 1) + 1 + Need(t[i]) <= 4 + 3 * q
      BY <1>2, <3>1, <3>2, <3>3, NeedIs
    <3> HIDE DEF t
    <3> QED
      BY <3>1, <3>2, <3>3, <3>4
  <2> QED
    BY <2>1, <2>2, <2>3
<1> QED
  BY <1>4 DEF Nested

-----------------------------------------------------------------------------
(* The accounts in memory and in the file.                                  *)

GoodMemory ==
  /\ StoreTypeOK /\ HealthAgrees
  /\ token \in [Accounts -> 0..MaxTokens] /\ \A a \in present : token[a] # 0

LEMMA MemoryIs == Memory \in GoodContents <=> GoodMemory
<1>1. Memory \in GoodContents
        <=> /\ Memory \in Contents
            /\ \A a \in Accounts : Agrees(acc[a]) /\ (a \in present => token[a] # 0)
  BY DEF GoodContents, Memory
<1>2. Memory \in Contents
        <=> acc \in [Accounts -> Account] /\ present \subseteq Accounts
            /\ token \in [Accounts -> 0..MaxTokens]
  BY DEF Contents, Memory
<1>3. HealthAgrees <=> \A a \in Accounts : Agrees(acc[a])
  BY DEF HealthAgrees, Agrees
<1> QED
  BY <1>1, <1>2, <1>3 DEF GoodMemory, StoreTypeOK

LEMMA MemoryIsNext == Memory' \in GoodContents <=> GoodMemory'
<1>1. (Memory \in GoodContents <=> GoodMemory)'
  BY MemoryIs, PTL
<1> QED
  BY <1>1

LEMMA MemoryChanges ==
  ASSUME GoodMemory, StoreStep, token' \in [Accounts -> 0..MaxTokens],
         \A a \in present' : token'[a] # 0
  PROVE  GoodMemory'
<1>1. StoreTypeOK' /\ HealthAgrees'
  BY StoreTyped DEF GoodMemory
<1> QED
  BY <1>1 DEF GoodMemory

LEMMA FreshIsGood == NoAccounts \in GoodContents
<1>1. FreshAccount \in Account /\ Agrees(FreshAccount)
  BY FieldValues DEF FreshAccount, Account, HealthStates, Agrees
<1>2. NoAccounts \in Contents
  BY <1>1, TokensAssumption DEF NoAccounts, Contents
<1>3. \A a \in Accounts : NoAccounts.acc[a] = FreshAccount /\ a \notin NoAccounts.present
  BY DEF NoAccounts
<1> QED
  BY <1>1, <1>2, <1>3 DEF GoodContents

LEMMA TornKeeps ==
  ASSUME file \in Files, NEW f \in Torn \cup {file}
  PROVE  f \in Files /\ f.content = file.content
<1>1. ASSUME NEW reads \in {"cut", "empty"}
      PROVE  /\ [file EXCEPT !.reads = reads] \in Files
             /\ [file EXCEPT !.reads = reads].content = file.content
  BY DEF Files
<1> QED
  BY <1>1 DEF Torn

(* A change in memory that is saved, not saved, or none.                    *)
Filed == Save(Memory') \/ SaveFails \/ UNCHANGED storage

LEMMA Filing ==
  ASSUME FilesTyped, GoodMemory', Filed
  PROVE  FilesTyped' /\ mode' = mode
<1>1. Memory' \in GoodContents
  BY MemoryIsNext
<1>2. CASE Save(Memory')
  <2>1. file' \in Files
    BY <1>1, <1>2 DEF Save, Files
  <2> QED
    BY <1>1, <1>2, <2>1 DEF Save, FilesTyped
<1>3. CASE SaveFails
  <2>1. file' \in Files
    BY <1>3, TornKeeps DEF SaveFails, FilesTyped
  <2> QED
    BY <1>1, <1>3, <2>1, FaultsAssumption DEF SaveFails, FilesTyped
<1>4. CASE UNCHANGED storage
  BY <1>1, <1>4 DEF storage, FilesTyped
<1> QED
  BY <1>2, <1>3, <1>4 DEF Filed

-----------------------------------------------------------------------------
(* The calls.                                                               *)

LEMMA CallIs ==
  ASSUME CallsTyped, NEW c \in Calls
  PROVE  /\ call[c] \in CallType /\ call[c].for \in Accounts
         /\ call[c].frames \in Seq(FrameType) /\ call[c].result \in Results
         /\ rejected[c] \in 0..MaxRejections /\ rejected[c] \in Nat
         /\ Nested(call[c].frames, rejected[c])
BY TokensAssumption DEF CallsTyped, CallType

LEMMA IdleIs == Idle \in CallType /\ \A r \in Nat : Nested(Idle.frames, r)
<1>1. (CHOOSE a \in Accounts : TRUE) \in Accounts
  BY TokensAssumption
<1>2. <<>> \in Seq(FrameType) /\ "none" \in Results
  BY DEF Results
<1> QED
  BY <1>1, <1>2 DEF Idle, CallType, Nested

LEMMA CallChange ==
  ASSUME CallsTyped, NEW c \in Calls, NEW k \in CallType, call' = [call EXCEPT ![c] = k],
         rejected' \in [Calls -> 0..MaxRejections],
         \A d \in Calls \ {c} : rejected'[d] = rejected[d],
         Nested(k.frames, rejected'[c])
  PROVE  CallsTyped'
<1>1. call' \in [Calls -> CallType]
  BY DEF CallsTyped
<1>2. ASSUME NEW d \in Calls PROVE Nested(call'[d].frames, rejected'[d])
  <2>1. CASE d = c
    <3>1. call'[d] = k
      BY <2>1 DEF CallsTyped
    <3> QED
      BY <2>1, <3>1
  <2>2. CASE d # c
    <3>1. call'[d] = call[d] /\ rejected'[d] = rejected[d]
      BY <2>2 DEF CallsTyped
    <3> QED
      BY <3>1 DEF CallsTyped
  <2> QED
    BY <2>1, <2>2
<1> QED
  BY <1>1, <1>2 DEF CallsTyped

LEMMA RejectedKept ==
  ASSUME CallsTyped, UNCHANGED rejected
  PROVE  /\ rejected' \in [Calls -> 0..MaxRejections]
         /\ \A d \in Calls : rejected'[d] = rejected[d]
BY DEF CallsTyped

LEMMA Returning ==
  ASSUME CallsTyped, NEW c \in Calls, Running(c), NEW result \in Results,
         Return(c, result), UNCHANGED rejected
  PROVE  CallsTyped'
<1> DEFINE k == IF Len(call[c].frames) = 1 THEN Idle
                ELSE [call[c] EXCEPT !.frames = Tail(@), !.result = result]
<1>1. call' = [call EXCEPT ![c] = k]
  BY DEF Return
<1>2. Tail(call[c].frames) \in Seq(FrameType) /\ Nested(Tail(call[c].frames), rejected[c])
  BY CallIs, Popped, PopNests DEF Running
<1>3. CASE Len(call[c].frames) = 1
  <2>1. k = Idle
    BY <1>3
  <2> QED
    BY <1>1, <2>1, IdleIs, RejectedKept, CallIs, CallChange
<1>4. CASE Len(call[c].frames) # 1
  <2>1. k = [call[c] EXCEPT !.frames = Tail(call[c].frames), !.result = result]
    BY <1>4
  <2>2. k \in CallType /\ k.frames = Tail(call[c].frames)
    BY <1>2, <2>1, CallIs DEF CallType
  <2> QED
    BY <1>1, <1>2, <2>2, RejectedKept, CallChange
<1> QED
  BY <1>3, <1>4

LEMMA TopIs ==
  ASSUME CallsTyped, NEW c \in Calls, Running(c)
  PROVE  Top(c) \in FrameType /\ Top(c).at \in Places[Top(c).op] /\ Need(Top(c)) \in 0..3
<1>1. Top(c) = call[c].frames[1] /\ Top(c) \in FrameType /\ Len(call[c].frames) \in Nat \ {0}
  BY CallIs, Popped DEF Running, Top
<1>2. call[c].frames[1].at \in Places[call[c].frames[1].op]
  BY <1>1, CallIs DEF Nested
<1> QED
  BY <1>1, <1>2, NeedIs

LEMMA Moving ==
  ASSUME CallsTyped, NEW c \in Calls, Running(c), NEW f \in FrameType,
         f.at \in Places[f.op], Need(f) <= Need(Top(c)), Move(c, f), UNCHANGED rejected
  PROVE  CallsTyped'
<1> DEFINE t == <<f>> \o Tail(call[c].frames)
           k == [call[c] EXCEPT !.frames = t, !.result = "none"]
<1>1. call' = [call EXCEPT ![c] = k]
  BY DEF Move
<1>2. t \in Seq(FrameType) /\ Nested(t, rejected[c])
  BY CallIs, Replaced, ReplaceNests DEF Running, Top
<1>3. k \in CallType /\ k.frames = t
  <2> HIDE DEF t
  <2> QED
    BY <1>2, CallIs DEF CallType, Results
<1> QED
  BY <1>1, <1>2, <1>3, RejectedKept, CallChange

LEMMA Pushing ==
  ASSUME CallsTyped, NEW c \in Calls, Running(c), NEW f \in FrameType, NEW g \in FrameType,
         f.at \in Places[f.op], Need(f) <= Need(Top(c)), g.at \in Places[g.op],
         call' = [call EXCEPT ![c] = [call[c] EXCEPT !.frames = <<g, f>> \o Tail(call[c].frames),
                                                     !.result = "none"]],
         rejected' \in [Calls -> 0..MaxRejections], rejected[c] <= rejected'[c],
         \A d \in Calls \ {c} : rejected'[d] = rejected[d],
         1 + Need(g) <= Need(Top(c)) + 3 * (rejected'[c] - rejected[c])
  PROVE  CallsTyped'
<1> DEFINE t == <<g, f>> \o Tail(call[c].frames)
           k == [call[c] EXCEPT !.frames = t, !.result = "none"]
<1>1. rejected'[c] \in Nat
  BY TokensAssumption
<1>2. t \in Seq(FrameType) /\ Nested(t, rejected'[c])
  BY <1>1, CallIs, Pushed, PushNests DEF Running, Top
<1>3. k \in CallType /\ k.frames = t /\ call' = [call EXCEPT ![c] = k]
  <2> HIDE DEF t
  <2>1. k \in CallType /\ k.frames = t
    BY <1>2, CallIs DEF CallType, Results
  <2> QED
    BY <2>1 DEF t
<1> QED
  BY <1>2, <1>3, CallChange

-----------------------------------------------------------------------------
(* The steps of a call keep the types, the agreement of labels and flags,   *)
(* and the nesting.                                                         *)

LEMMA QuietFiles ==
  ASSUME FilesTyped, UNCHANGED <<store, storage, token>>
  PROVE  FilesTyped'
BY DEF FilesTyped, store, storage, Memory

LEMMA QuietTokens ==
  ASSUME TokensTyped, UNCHANGED <<tokens, provider, loops>>
  PROVE  TokensTyped'
BY DEF TokensTyped, tokens

LEMMA MemoryGood == ASSUME FilesTyped PROVE GoodMemory
BY MemoryIs DEF FilesTyped

(* A write of UpdateAccount and what becomes of the file.                   *)
LEMMA WritingTyped ==
  ASSUME FilesTyped, NEW a \in Accounts, NEW rec, Rewritten(acc[a], rec), Write(a, rec),
         token' \in [Accounts -> 0..MaxTokens], \A b \in present : token'[b] # 0, Filed
  PROVE  FilesTyped' /\ mode' = mode
<1>1. GoodMemory
  BY MemoryGood
<1>2. StoreStep /\ present' = present
  BY <1>1, WriteRewrites DEF Write, GoodMemory
<1>3. GoodMemory'
  BY <1>1, <1>2, MemoryChanges
<1> QED
  BY <1>3, Filing

LEMMA ResultsAre ==
  /\ "ok" \in Results /\ "plain" \in Results /\ "none" \in Results
  /\ \A w \in AuthReasons : w \in Results
  /\ \A r \in Results : r # "none" /\ r # "ok" => r \in AuthReasons
BY DEF Results, AuthReasons

LEMMA UpdatingTyped ==
  ASSUME Typed, NEW c \in Calls, Running(c), NEW rec, Rewritten(acc[Of(c)], rec),
         NEW r \in Results, NEW o \in Results, UpdateAccount(c, rec, r, o),
         UNCHANGED <<rejected, provider, loops>>
  PROVE  Typed'
<1>1. Of(c) \in Accounts
  BY CallIs DEF Typed, Of
<1>2. Write(Of(c), rec) /\ UNCHANGED tokens /\ Filed
  BY DEF UpdateAccount, Saved, Unsaved, Filed
<1>3. FilesTyped'
  <2>1. GoodMemory /\ token' = token
    BY <1>2, MemoryGood DEF Typed, tokens
  <2> QED
    BY <1>1, <1>2, <2>1, WritingTyped DEF Typed, GoodMemory
<1>4. Return(c, r) \/ Return(c, o)
  BY DEF UpdateAccount, Saved, Unsaved
<1>5. CallsTyped'
  BY <1>4, Returning DEF Typed
<1> QED
  BY <1>2, <1>3, <1>5, QuietTokens DEF Typed

LEMMA QuietReturns ==
  ASSUME Typed, NEW c \in Calls, Running(c), NEW r \in Results, Return(c, r),
         UNCHANGED <<store, storage, tokens, rejected, provider, loops>>
  PROVE  Typed'
<1>1. UNCHANGED <<store, storage, token>>
  BY DEF tokens
<1> QED
  BY <1>1, QuietFiles, QuietTokens, Returning DEF Typed

LEMMA QuietMoves ==
  ASSUME Typed, NEW c \in Calls, Running(c), NEW f \in FrameType, f.at \in Places[f.op],
         Need(f) <= Need(Top(c)), Move(c, f),
         UNCHANGED <<store, storage, tokens, rejected, provider, loops>>
  PROVE  Typed'
<1>1. UNCHANGED <<store, storage, token>>
  BY DEF tokens
<1> QED
  BY <1>1, QuietFiles, QuietTokens, Moving DEF Typed

(* The frames a call may be left with.                                      *)
LEMMA FrameNew ==
  ASSUME NEW op \in {"renew", "quota"}, NEW forced \in BOOLEAN
  PROVE  /\ Frame(op, forced) \in FrameType
         /\ Frame(op, forced).at \in Places[op] /\ Frame(op, forced).op = op
         /\ Need(Frame("renew", TRUE)) = 2 /\ Need(Frame("renew", FALSE)) = 0
         /\ Need(Frame("quota", TRUE)) = 3 /\ Need(Frame("quota", FALSE)) = 1
BY TokensAssumption DEF Frame, FrameType, AllPlaces, Places, Need

LEMMA FrameAt ==
  ASSUME NEW f \in FrameType, NEW place \in Places[f.op], place # "start"
  PROVE  /\ [f EXCEPT !.at = place] \in FrameType
         /\ [f EXCEPT !.at = place].at = place /\ [f EXCEPT !.at = place].op = f.op
         /\ [f EXCEPT !.at = place].forced = f.forced
         /\ Need([f EXCEPT !.at = place]) <= Need(f)
<1>1. place \in AllPlaces
  BY DEF AllPlaces, Places, FrameType
<1>2. [f EXCEPT !.at = place] \in FrameType
  BY <1>1 DEF FrameType
<1>3. Need([f EXCEPT !.at = place]) <= Need(f)
  BY DEF Need, FrameType
<1> QED
  BY <1>2, <1>3 DEF FrameType

LEMMA GoingTyped ==
  ASSUME Typed, NEW c \in Calls, Running(c), NEW place \in Places[Top(c).op], place # "start",
         Goto(c, place), UNCHANGED <<store, storage, tokens, rejected, provider, loops>>
  PROVE  Typed'
<1>1. Top(c) \in FrameType
  BY TopIs DEF Typed
<1> QED
  BY <1>1, FrameAt, QuietMoves DEF Goto

LEMMA AtIs ==
  ASSUME CallsTyped, NEW c \in Calls, NEW op, NEW place, At(c, op, place) \/ Back(c, op, place)
  PROVE  /\ Running(c) /\ Of(c) \in Accounts
         /\ Top(c) \in FrameType /\ Top(c).op = op /\ Top(c).at = place
         /\ call[c].result \in Results
BY CallIs, TopIs DEF At, Back, Of

LEMMA ConsiderTyped ==
  ASSUME Typed, NEW c \in Calls, Consider(c), UNCHANGED <<provider, loops>>
  PROVE  Typed'
<1> DEFINE f == [Top(c) EXCEPT !.at = "sent", !.sees = token[Of(c)]]
<1>1. /\ Running(c) /\ Of(c) \in Accounts /\ Top(c) \in FrameType
      /\ Top(c).op = "renew" /\ Top(c).at = "start"
  BY AtIs DEF Consider, Typed
<1>2. UNCHANGED <<store, storage, tokens, rejected, provider, loops>>
  BY DEF Consider
<1>3. \/ \E r \in Results : Return(c, r)
      \/ Move(c, f)
  BY ResultsAre DEF Consider
<1>4. CASE \E r \in Results : Return(c, r)
  BY <1>1, <1>2, <1>4, QuietReturns
<1>5. CASE Move(c, f)
  <2>1. token[Of(c)] \in Nat
    BY <1>1, MemoryGood, TokensAssumption DEF Typed, GoodMemory
  <2>2. f \in FrameType /\ f.op = "renew" /\ f.at = "sent" /\ f.forced = Top(c).forced
    BY <1>1, <2>1 DEF FrameType, AllPlaces, Places
  <2>3. f.at \in Places[f.op] /\ Need(f) <= Need(Top(c))
    BY <1>1, <2>2, NeedIs DEF Places, Need
  <2> HIDE DEF f
  <2> QED
    BY <1>1, <1>2, <1>5, <2>2, <2>3, QuietMoves
<1> QED
  BY <1>3, <1>4, <1>5

LEMMA GrantTyped ==
  ASSUME Typed, NEW c \in Calls, Grant(c), UNCHANGED <<provider, loops>>
  PROVE  Typed'
<1> DEFINE next == issued[Of(c)] + 1
           f == [Top(c) EXCEPT !.at = "granted"]
           g == [Top(c) EXCEPT !.at = "granted", !.got = next]
<1>1. /\ Running(c) /\ Of(c) \in Accounts /\ Top(c) \in FrameType
      /\ Top(c).op = "renew" /\ Top(c).at = "sent"
  BY AtIs DEF Grant, Typed
<1>2. UNCHANGED <<store, storage, token, expired, rejected>>
  BY DEF Grant
<1>3. FilesTyped'
  BY <1>2, QuietFiles DEF Typed
<1>4. issued[Of(c)] \in 1..MaxTokens /\ MaxTokens \in Nat
  BY <1>1, TokensAssumption DEF Typed, TokensTyped
<1>5. CASE Move(c, f) /\ UNCHANGED <<honoured, issued, dropped>>
  <2>1. f \in FrameType /\ f.at \in Places[f.op] /\ Need(f) <= Need(Top(c))
    BY <1>1, FrameAt DEF Places
  <2> HIDE DEF f
  <2> QED
    BY <1>1, <1>2, <1>5, <2>1, QuietMoves DEF tokens
<1>6. CASE /\ next <= MaxTokens /\ issued' = [issued EXCEPT ![Of(c)] = next]
           /\ \E old \in SUBSET {Top(c).sees} :
                honoured' = [honoured EXCEPT ![Of(c)] = (@ \ old) \cup {next}]
           /\ \/ Move(c, g) /\ UNCHANGED dropped
              \/ Return(c, "plain") /\ dropped' = dropped \cup {Of(c)}
  <2>1. next \in 1..MaxTokens
    BY <1>4, <1>6
  <2>2. TokensTyped'
    <3>1. issued' \in [Accounts -> 1..MaxTokens]
      BY <1>6, <2>1 DEF Typed, TokensTyped
    <3>2. PICK old : honoured' = [honoured EXCEPT ![Of(c)] = (@ \ old) \cup {next}]
      BY <1>6
    <3>3. honoured' \in [Accounts -> SUBSET (1..MaxTokens)]
      <4>1. (honoured[Of(c)] \ old) \cup {next} \in SUBSET (1..MaxTokens)
        BY <1>1, <2>1 DEF Typed, TokensTyped
      <4> HIDE DEF next
      <4> QED
        BY <3>2, <4>1 DEF Typed, TokensTyped
    <3>4. dropped' \subseteq Accounts
      BY <1>1, <1>6 DEF Typed, TokensTyped
    <3> QED
      BY <1>2, <3>1, <3>3, <3>4 DEF Typed, TokensTyped
  <2>3. CASE Move(c, g)
    <3>1. g \in FrameType /\ g.op = "renew" /\ g.at = "granted" /\ g.forced = Top(c).forced
      <4>1. next \in 0..MaxTokens /\ "granted" \in AllPlaces
        BY <1>4, <2>1 DEF AllPlaces, Places
      <4> HIDE DEF next
      <4> QED
        BY <1>1, <4>1 DEF FrameType
    <3>2. g.at \in Places[g.op] /\ Need(g) <= Need(Top(c))
      BY <1>1, <3>1, NeedIs DEF Places, Need
    <3>3. CallsTyped /\ UNCHANGED rejected
      BY <1>2 DEF Typed
    <3>4. CallsTyped'
      <4> HIDE DEF g
      <4> QED
        BY <1>1, <2>3, <3>1, <3>2, <3>3, Moving
    <3> QED
      BY <1>3, <2>2, <3>4 DEF Typed
  <2>4. CASE Return(c, "plain")
    BY <1>1, <1>2, <1>3, <2>2, <2>4, ResultsAre, Returning DEF Typed
  <2> QED
    BY <1>6, <2>3, <2>4
<1> QED
  BY <1>5, <1>6 DEF Grant

LEMMA RefuseTyped ==
  ASSUME Typed, NEW c \in Calls, Refuse(c), UNCHANGED <<provider, loops>>
  PROVE  Typed'
<1>1. Running(c) /\ Of(c) \in Accounts /\ UNCHANGED rejected
  BY AtIs DEF Refuse, Typed
<1>2. PICK why \in AuthReasons :
        /\ Write(Of(c), RefreshRejected(acc[Of(c)], why))
        /\ Return(c, why) /\ UNCHANGED tokens /\ Filed
  BY DEF Refuse, Filed
<1>3. Rewritten(acc[Of(c)], RefreshRejected(acc[Of(c)], why))
  BY Choices DEF Rewritten
<1>4. GoodMemory /\ token' = token
  BY <1>2, MemoryGood DEF Typed, tokens
<1>5. FilesTyped'
  BY <1>1, <1>2, <1>3, <1>4, WritingTyped DEF Typed, GoodMemory
<1> QED
  BY <1>1, <1>2, <1>5, ResultsAre, Returning, QuietTokens DEF Typed

LEMMA LosingTyped ==
  ASSUME Typed, NEW c \in Calls, Running(c), Return(c, "plain"), TokenIsLost(c),
         UNCHANGED <<store, storage, rejected, provider, loops>>
  PROVE  Typed'
<1>1. Of(c) \in Accounts
  BY CallIs DEF Typed, Of
<1>2. TokensTyped'
  BY <1>1 DEF Typed, TokensTyped, TokenIsLost
<1>3. FilesTyped'
  BY QuietFiles DEF Typed, TokenIsLost
<1> QED
  BY <1>2, <1>3, ResultsAre, Returning DEF Typed

LEMMA BadIDTokenTyped ==
  ASSUME Typed, NEW c \in Calls, BadIDToken(c), UNCHANGED <<provider, loops>>
  PROVE  Typed'
BY AtIs, LosingTyped DEF BadIDToken, Typed

LEMMA InvokingTyped ==
  ASSUME CallsTyped, NEW c \in Calls, Running(c), NEW place \in Places[Top(c).op], place # "start",
         NEW g \in FrameType, g.at \in Places[g.op], Invoke(c, place, g),
         rejected' \in [Calls -> 0..MaxRejections], rejected[c] <= rejected'[c],
         \A d \in Calls \ {c} : rejected'[d] = rejected[d],
         1 + Need(g) <= Need(Top(c)) + 3 * (rejected'[c] - rejected[c])
  PROVE  CallsTyped'
<1> DEFINE f == [Top(c) EXCEPT !.at = place]
<1>1. f \in FrameType /\ f.at \in Places[f.op] /\ Need(f) <= Need(Top(c))
  BY TopIs, FrameAt
<1>2. call' = [call EXCEPT ![c] = [call[c] EXCEPT !.frames = <<g, f>> \o Tail(call[c].frames),
                                                  !.result = "none"]]
  BY DEF Invoke
<1> HIDE DEF f
<1> QED
  BY <1>1, <1>2, Pushing

LEMMA StoreTokensTyped ==
  ASSUME Typed, NEW c \in Calls, StoreTokens(c), UNCHANGED <<provider, loops>>
  PROVE  Typed'
<1>1. /\ Running(c) /\ Of(c) \in Accounts /\ Top(c) \in FrameType
      /\ Top(c).op = "renew" /\ Top(c).at = "granted" /\ UNCHANGED rejected
  BY AtIs DEF StoreTokens, Typed
<1>2. CASE Of(c) \notin present
  BY <1>1, <1>2, LosingTyped DEF StoreTokens
<1>3. CASE Of(c) \in present
  <2>1. /\ Write(Of(c), TokenRenewed(acc[Of(c)])) /\ StoreToken(c, Of(c))
        /\ expired' = expired \ {Of(c)} /\ UNCHANGED <<honoured, issued, dropped>>
        /\ \/ Save(Memory') /\ IF Top(c).forced
                               THEN Invoke(c, "renewed", Frame("quota", FALSE))
                               ELSE Return(c, "ok")
           \/ Unsaved(c, "plain")
    BY <1>3 DEF StoreTokens
  <2>2. GoodMemory
    BY MemoryGood DEF Typed
  <2>3. token' \in [Accounts -> 0..MaxTokens] /\ \A b \in present : token'[b] # 0
    <3>1. Top(c).got \in 0..MaxTokens
      BY <1>1 DEF FrameType
    <3> QED
      BY <1>1, <2>1, <2>2, <3>1 DEF StoreToken, GoodMemory
  <2>4. Rewritten(acc[Of(c)], TokenRenewed(acc[Of(c)]))
    BY DEF Rewritten
  <2>5. Filed
    BY <2>1 DEF Unsaved, Filed
  <2>6. FilesTyped'
    BY <1>1, <2>1, <2>3, <2>4, <2>5, WritingTyped DEF Typed
  <2>7. TokensTyped'
    BY <2>1 DEF Typed, TokensTyped
  <2>8. CallsTyped'
    <3>1. CASE Top(c).forced /\ Invoke(c, "renewed", Frame("quota", FALSE))
      <4> DEFINE g == Frame("quota", FALSE)
      <4>1. Need(Top(c)) = 2
        BY <1>1, <3>1 DEF Need
      <4>2. "renewed" \in Places[Top(c).op]
        BY <1>1 DEF Places
      <4>3. g \in FrameType /\ Need(g) = 1 /\ g.at \in Places[g.op]
        BY FrameNew
      <4>4. Invoke(c, "renewed", g)
        BY <3>1
      <4> HIDE DEF g
      <4>5. /\ CallsTyped /\ rejected' \in [Calls -> 0..MaxRejections]
            /\ \A d \in Calls : rejected'[d] = rejected[d]
        BY <1>1, RejectedKept DEF Typed
      <4>6. rejected[c] \in Nat
        BY <4>5, CallIs
      <4>7. rejected[c] <= rejected'[c] /\ 1 + Need(g) <= Need(Top(c)) + 3 * (rejected'[c] - rejected[c])
        BY <4>1, <4>3, <4>5, <4>6
      <4> QED
        BY <1>1, <4>2, <4>3, <4>4, <4>5, <4>7, InvokingTyped
    <3>2. CASE Return(c, "ok") \/ Return(c, "plain")
      BY <1>1, <3>2, ResultsAre, Returning DEF Typed
    <3> QED
      BY <2>1, <3>1, <3>2 DEF Unsaved
  <2> QED
    BY <2>6, <2>7, <2>8 DEF Typed
<1> QED
  BY <1>2, <1>3

LEMMA QuotaReadAfterwardsTyped ==
  ASSUME Typed, NEW c \in Calls, QuotaReadAfterwards(c), UNCHANGED <<provider, loops>>
  PROVE  Typed'
BY AtIs, QuietReturns DEF QuotaReadAfterwards, Typed

LEMMA ReadQuotaTyped ==
  ASSUME Typed, NEW c \in Calls, ReadQuota(c), UNCHANGED <<provider, loops>>
  PROVE  Typed'
<1> DEFINE f == [Top(c) EXCEPT !.at = "asked", !.sees = acc[Of(c)].cooldown]
<1>1. /\ Running(c) /\ Of(c) \in Accounts /\ Top(c) \in FrameType
      /\ Top(c).op = "quota" /\ Top(c).at = "start" /\ call[c].result = "none"
  BY AtIs DEF ReadQuota, Typed, At
<1>2. UNCHANGED <<store, storage, tokens, rejected>>
  BY DEF ReadQuota
<1>3. CASE Return(c, "plain")
  BY <1>1, <1>2, <1>3, ResultsAre, QuietReturns
<1>4. CASE call' = [call EXCEPT ![c].frames = <<EnsureFresh(c), f>> \o Tail(@)]
  <2>1. acc[Of(c)].cooldown \in Nat
    BY <1>1, MemoryGood DEF Typed, GoodMemory, StoreTypeOK, Account
  <2>2. f \in FrameType /\ f.op = "quota" /\ f.at = "asked"
    BY <1>1, <2>1 DEF FrameType, AllPlaces, Places
  <2>3. f.at \in Places[f.op] /\ Need(f) <= Need(Top(c))
    BY <2>2, NeedIs DEF Places, Need
  <2>4. /\ EnsureFresh(c) \in FrameType /\ EnsureFresh(c).at \in Places[EnsureFresh(c).op]
        /\ 1 + Need(EnsureFresh(c)) <= Need(Top(c))
    <3>1. Top(c).forced \in BOOLEAN
      BY <1>1 DEF FrameType
    <3>2. /\ EnsureFresh(c) \in FrameType
          /\ EnsureFresh(c).at \in Places[EnsureFresh(c).op]
      BY <3>1, FrameNew DEF EnsureFresh
    <3>3. CASE Top(c).forced = TRUE
      <4>1. Need(EnsureFresh(c)) = 2
        BY <3>3, FrameNew DEF EnsureFresh
      <4>2. Need(Top(c)) = 3
        BY <1>1, <3>3 DEF Need
      <4> QED
        BY <3>2, <4>1, <4>2
    <3>4. CASE Top(c).forced = FALSE
      <4>1. Need(EnsureFresh(c)) = 0
        BY <3>4, FrameNew DEF EnsureFresh
      <4>2. Need(Top(c)) = 1
        BY <1>1, <3>4 DEF Need
      <4> QED
        BY <3>2, <4>1, <4>2
    <3> QED
      BY <3>1, <3>3, <3>4
  <2> HIDE DEF f
  <2>5. call' = [call EXCEPT ![c] = [call[c] EXCEPT !.frames = <<EnsureFresh(c), f>> \o Tail(call[c].frames),
                                                    !.result = "none"]]
    <3>1. call[c] \in CallType
      BY CallIs DEF Typed
    <3>2. ASSUME NEW t
          PROVE  [call[c] EXCEPT !.frames = t] = [call[c] EXCEPT !.frames = t, !.result = "none"]
      BY <1>1, <3>1 DEF CallType
    <3> QED
      BY <1>4, <3>2
  <2>6. rejected'[c] = rejected[c] /\ rejected[c] \in Nat
    BY <1>2, CallIs DEF Typed
  <2>7. CallsTyped'
    <3>1. /\ CallsTyped /\ rejected' \in [Calls -> 0..MaxRejections]
          /\ rejected[c] <= rejected'[c]
          /\ \A d \in Calls \ {c} : rejected'[d] = rejected[d]
          /\ 1 + Need(EnsureFresh(c)) <= Need(Top(c)) + 3 * (rejected'[c] - rejected[c])
      BY <1>2, <2>4, <2>6, RejectedKept, NeedIs DEF Typed
    <3> QED
      BY <1>1, <2>2, <2>3, <2>4, <2>5, <3>1, Pushing
  <2> QED
    BY <1>2, <2>7, QuietFiles, QuietTokens DEF Typed, tokens
<1> QED
  BY <1>3, <1>4 DEF ReadQuota

LEMMA TokenIsFreshTyped ==
  ASSUME Typed, NEW c \in Calls, TokenIsFresh(c), UNCHANGED <<provider, loops>>
  PROVE  Typed'
<1>1. Running(c) /\ "fetch" \in Places[Top(c).op]
  BY AtIs DEF TokenIsFresh, Typed, Places
<1> QED
  BY <1>1, GoingTyped DEF TokenIsFresh

LEMMA TokenIsNotFreshTyped ==
  ASSUME Typed, NEW c \in Calls, TokenIsNotFresh(c), UNCHANGED <<provider, loops>>
  PROVE  Typed'
<1> DEFINE why == call[c].result
           failed == QuotaAuthFailure(acc[Of(c)], why, Top(c).sees)
<1>1. /\ Running(c) /\ Top(c) \in FrameType /\ why \in Results /\ UNCHANGED rejected
  BY AtIs DEF TokenIsNotFresh, Typed
<1>2. why \in AuthReasons
  BY <1>1, ResultsAre DEF TokenIsNotFresh, Back
<1>3. CASE Return(c, why) /\ UNCHANGED <<store, storage, tokens>>
  BY <1>1, <1>3, QuietReturns
<1>4. CASE UpdateAccount(c, failed, why, why)
  <2>1. Top(c).sees \in Nat
    BY <1>1 DEF FrameType
  <2>2. Rewritten(acc[Of(c)], failed)
    BY <1>2, <2>1, Choices DEF Rewritten
  <2> HIDE DEF failed, why
  <2> QED
    BY <1>1, <1>4, <2>2, UpdatingTyped
<1> QED
  BY <1>3, <1>4 DEF TokenIsNotFresh

LEMMA StoreQuotaTyped ==
  ASSUME Typed, NEW c \in Calls, Running(c), NEW results \in SUBSET Results,
         StoreQuota(c, results), UNCHANGED <<rejected, provider, loops>>
  PROVE  Typed'
<1>1. PICK status \in QuotaStatuses, reset \in QuotaResets \cup {0}, result \in results :
        UpdateAccount(c, ApplyQuotaSnapshot(acc[Of(c)], status, reset), result, "plain")
  BY DEF StoreQuota
<1>2. Rewritten(acc[Of(c)], ApplyQuotaSnapshot(acc[Of(c)], status, reset))
  BY Choices DEF Rewritten
<1>3. result \in Results /\ "plain" \in Results
  BY ResultsAre
<1> QED
  BY <1>1, <1>2, <1>3, UpdatingTyped

LEMMA FetchQuotaTyped ==
  ASSUME Typed, NEW c \in Calls, FetchQuota(c), UNCHANGED <<provider, loops>>
  PROVE  Typed'
<1>1. Running(c) /\ Top(c).op = "quota" /\ UNCHANGED rejected
  BY AtIs DEF FetchQuota, Typed
<1>2. CASE StoreQuota(c, {"ok"} \cup AuthReasons)
  <2>1. {"ok"} \cup AuthReasons \in SUBSET Results
    BY ResultsAre
  <2> QED
    BY <1>1, <1>2, <2>1, StoreQuotaTyped
<1>3. CASE Goto(c, "email") /\ UNCHANGED <<store, storage, tokens>>
  <2>1. "email" \in Places[Top(c).op]
    BY <1>1 DEF Places
  <2> QED
    BY <1>1, <1>3, <2>1, GoingTyped
<1> QED
  BY <1>2, <1>3 DEF FetchQuota

LEMMA TokenIsRejectedTyped ==
  ASSUME Typed, NEW c \in Calls, TokenIsRejected(c), UNCHANGED <<provider, loops>>
  PROVE  Typed'
<1> DEFINE g == Frame("renew", TRUE)
<1>1. PICK place \in {"renewing", "emailing"} :
        /\ Running(c) /\ Top(c) \in FrameType /\ Top(c).op = "quota"
        /\ Invoke(c, place, g)
  BY AtIs DEF TokenIsRejected, Typed
<1>2. /\ rejected' = [rejected EXCEPT ![c] = @ + 1] /\ rejected[c] < MaxRejections
      /\ UNCHANGED <<store, storage, tokens>>
  BY DEF TokenIsRejected
<1>3. g \in FrameType /\ g.at \in Places[g.op] /\ Need(g) = 2
  BY FrameNew
<1> HIDE DEF g
<1>4. CallsTyped /\ rejected[c] \in Nat /\ rejected[c] \in 0..MaxRejections /\ MaxRejections \in Nat
  BY CallIs, TokensAssumption DEF Typed
<1>5. /\ rejected' \in [Calls -> 0..MaxRejections] /\ rejected'[c] = rejected[c] + 1
      /\ \A d \in Calls \ {c} : rejected'[d] = rejected[d]
  BY <1>2, <1>4 DEF CallsTyped
<1>6. rejected[c] <= rejected'[c] /\ 1 + Need(g) <= Need(Top(c)) + 3 * (rejected'[c] - rejected[c])
  BY <1>3, <1>4, <1>5, NeedIs
<1>7. place \in Places[Top(c).op] /\ place # "start"
  BY <1>1 DEF Places
<1>8. CallsTyped'
  BY <1>1, <1>3, <1>4, <1>5, <1>6, <1>7, InvokingTyped
<1> QED
  BY <1>2, <1>8, QuietFiles, QuietTokens DEF Typed, tokens

LEMMA TryAgainTyped ==
  ASSUME Typed, NEW c \in Calls, TryAgain(c), UNCHANGED <<provider, loops>>
  PROVE  Typed'
<1>1. Running(c) /\ Top(c).op = "quota" /\ UNCHANGED rejected
  BY AtIs DEF TryAgain, Typed
<1>2. CASE Goto(c, "again") /\ UNCHANGED <<store, storage, tokens>>
  <2>1. "again" \in Places[Top(c).op]
    BY <1>1 DEF Places
  <2> QED
    BY <1>1, <1>2, <2>1, GoingTyped
<1>3. CASE StoreQuota(c, AuthReasons)
  <2>1. AuthReasons \in SUBSET Results
    BY ResultsAre
  <2> QED
    BY <1>1, <1>3, <2>1, StoreQuotaTyped
<1> QED
  BY <1>2, <1>3 DEF TryAgain

LEMMA LearnAddressTyped ==
  ASSUME Typed, NEW c \in Calls, LearnAddress(c), UNCHANGED <<provider, loops>>
  PROVE  Typed'
<1>1. Running(c) /\ Top(c).op = "quota" /\ UNCHANGED rejected
  BY AtIs DEF LearnAddress, Typed
<1>2. CASE Goto(c, "learned") /\ UNCHANGED <<store, storage, tokens>>
  <2>1. "learned" \in Places[Top(c).op]
    BY <1>1 DEF Places
  <2> QED
    BY <1>1, <1>2, <2>1, GoingTyped
<1>3. CASE StoreQuota(c, {"ok"})
  <2>1. {"ok"} \in SUBSET Results
    BY ResultsAre
  <2> QED
    BY <1>1, <1>3, <2>1, StoreQuotaTyped
<1> QED
  BY <1>2, <1>3 DEF LearnAddress

LEMMA StepTyped ==
  ASSUME Typed, NEW c \in Calls, Step(c), UNCHANGED <<provider, loops>>
  PROVE  Typed'
BY ConsiderTyped, GrantTyped, RefuseTyped, BadIDTokenTyped, StoreTokensTyped,
   QuotaReadAfterwardsTyped, ReadQuotaTyped, TokenIsFreshTyped, TokenIsNotFreshTyped,
   FetchQuotaTyped, TokenIsRejectedTyped, TryAgainTyped, LearnAddressTyped DEF Step

-----------------------------------------------------------------------------
(* So do the other steps.                                                   *)

LEMMA BeginTyped ==
  ASSUME Typed, NEW c \in Calls, Begin(c), UNCHANGED <<provider, loops>>
  PROVE  Typed'
<1>1. PICK a \in present, op \in {"renew", "quota"}, forced \in BOOLEAN :
        call' = [call EXCEPT ![c] = [for |-> a, frames |-> <<Frame(op, forced)>>,
                                     result |-> "none"]]
  BY DEF Begin
<1> DEFINE f == Frame(op, forced)
           k == [for |-> a, frames |-> <<f>>, result |-> "none"]
<1>2. f \in FrameType /\ f.at \in Places[f.op] /\ Need(f) \in 0..3
  BY FrameNew, NeedIs
<1>3. call' = [call EXCEPT ![c] = k]
  BY <1>1
<1> HIDE DEF f
<1>4. a \in Accounts
  BY MemoryGood DEF Typed, GoodMemory, StoreTypeOK
<1>5. k \in CallType /\ k.frames = <<f>>
  BY <1>2, <1>4, ResultsAre DEF CallType
<1>6. Nested(<<f>>, 0)
  BY <1>2 DEF Nested
<1>7. /\ rejected' = [rejected EXCEPT ![c] = 0] /\ UNCHANGED <<store, storage, tokens>>
  BY DEF Begin
<1>8. /\ rejected' \in [Calls -> 0..MaxRejections] /\ rejected'[c] = 0
      /\ \A d \in Calls \ {c} : rejected'[d] = rejected[d]
  BY <1>7, TokensAssumption DEF Typed, CallsTyped
<1> HIDE DEF k
<1>9. CallsTyped'
  BY <1>3, <1>5, <1>6, <1>8, CallChange DEF Typed
<1> QED
  BY <1>7, <1>9, QuietFiles, QuietTokens DEF Typed, tokens

LEMMA QuietCalls ==
  ASSUME CallsTyped, UNCHANGED calls
  PROVE  CallsTyped'
BY DEF CallsTyped, calls

LEMMA ExpiresTyped ==
  ASSUME Typed, NEW a \in Accounts, Expires(a), UNCHANGED <<provider, loops>>
  PROVE  Typed'
<1>1. TokensTyped'
  BY DEF Expires, Typed, TokensTyped
<1> QED
  BY <1>1, QuietFiles, QuietCalls DEF Expires, Typed

LEMMA LoginTyped ==
  ASSUME Typed, NEW a \in Accounts, Login(a), UNCHANGED <<provider, loops>>
  PROVE  Typed'
<1> DEFINE next == issued[a] + 1
<1>1. next \in 1..MaxTokens /\ issued' = [issued EXCEPT ![a] = next] /\ issued'[a] = next
  BY TokensAssumption DEF Login, Typed, TokensTyped
<1> HIDE DEF next
<1>2. GoodMemory
  BY MemoryGood DEF Typed
<1>3. /\ token' = [token EXCEPT ![a] = next]
      /\ honoured' = [honoured EXCEPT ![a] = @ \cup {next}]
      /\ expired' = expired \ {a} /\ dropped' = dropped \ {a}
      /\ OwnerConnects(a) /\ Filed /\ UNCHANGED calls
  BY <1>1 DEF Login, Filed
<1>4. TokensTyped'
  <2>1. honoured[a] \cup {next} \in SUBSET (1..MaxTokens)
    BY <1>1 DEF Typed, TokensTyped
  <2>2. honoured' \in [Accounts -> SUBSET (1..MaxTokens)]
    BY <1>3, <2>1 DEF Typed, TokensTyped
  <2>3. issued' \in [Accounts -> 1..MaxTokens]
    BY <1>1 DEF Typed, TokensTyped
  <2> QED
    BY <1>3, <2>2, <2>3 DEF Typed, TokensTyped
<1>5. StoreStep
  BY <1>2, <1>3, OwnerReturnsOne DEF OwnerReturns, GoodMemory
<1>6. token' \in [Accounts -> 0..MaxTokens] /\ \A b \in present' : token'[b] # 0
  <2>1. present' = present \cup {a}
    BY <1>3 DEF OwnerConnects
  <2> QED
    BY <1>1, <1>2, <1>3, <2>1 DEF GoodMemory
<1>7. FilesTyped'
  BY <1>2, <1>3, <1>5, <1>6, MemoryChanges, Filing DEF Typed
<1> QED
  BY <1>3, <1>4, <1>7, QuietCalls DEF Typed

LEMMA OwnerTyped ==
  ASSUME Typed, NEW a \in Accounts, Owner(a), UNCHANGED <<provider, loops>>
  PROVE  Typed'
<1>1. GoodMemory
  BY MemoryGood DEF Typed
<1>2. UNCHANGED <<tokens, calls>> /\ Filed
  BY DEF Owner, Filed
<1>3. StoreStep /\ present' \subseteq present
  <2>1. CASE OwnerDeletes(a)
    BY <1>1, <2>1, StoreKept DEF OwnerDeletes, GoodMemory
  <2>2. CASE OwnerSwitches(a, TRUE)
    <3>1. present' = present
      BY <2>2 DEF OwnerSwitches, Write
    <3> QED
      BY <1>1, <2>2, <3>1, OwnerReturnsOne DEF OwnerReturns, GoodMemory
  <2>3. CASE OwnerSwitches(a, FALSE)
    <3>1. Write(a, SetEnabled(acc[a], FALSE)) /\ present' = present
      BY <2>3 DEF OwnerSwitches, Write
    <3>2. Rewritten(acc[a], SetEnabled(acc[a], FALSE))
      BY DEF Rewritten
    <3> QED
      BY <1>1, <3>1, <3>2, WriteRewrites DEF GoodMemory
  <2> QED
    BY <2>1, <2>2, <2>3 DEF Owner
<1>4. token' = token
  BY <1>2 DEF tokens
<1>5. GoodMemory'
  BY <1>1, <1>3, <1>4, MemoryChanges DEF GoodMemory
<1> QED
  BY <1>2, <1>5, Filing, QuietTokens, QuietCalls DEF Typed

LEMMA CrashTyped ==
  ASSUME Typed, Crash, UNCHANGED provider
  PROVE  Typed'
<1>1. UNCHANGED <<store, token, expired, honoured, issued>> /\ loops' = {} /\ StorageCrash
  BY DEF Crash
<1>2. file' \in Files /\ faults' \in 0..MaxFaults /\ copy' \in {"none", "made", "failed"}
  <2>1. CASE mode = "up" /\ faults < MaxFaults /\ faults' = faults + 1
             /\ file' \in Torn \cup {file} /\ copy' = "none"
    BY <2>1, TornKeeps, FaultsAssumption DEF Typed, FilesTyped
  <2>2. CASE UNCHANGED <<file, copy, faults>>
    BY <2>2 DEF Typed, FilesTyped
  <2> QED
    BY <1>1, <2>1, <2>2 DEF StorageCrash
<1>3. FilesTyped'
  <2>1. Memory' = Memory
    BY <1>1 DEF Memory, store
  <2> QED
    BY <1>1, <1>2, <2>1 DEF Typed, FilesTyped, StorageCrash
<1>4. TokensTyped'
  <2>1. dropped' \subseteq Accounts
    BY DEF Crash, Typed, TokensTyped
  <2> QED
    BY <1>1, <2>1 DEF Typed, TokensTyped
<1>5. CallsTyped'
  <2>1. call' = [c \in Calls |-> Idle] /\ rejected' = [c \in Calls |-> 0]
    BY DEF Crash
  <2> QED
    BY <2>1, IdleIs, TokensAssumption DEF CallsTyped
<1> QED
  BY <1>3, <1>4, <1>5 DEF Typed

LEMMA RememberTyped ==
  ASSUME Typed, NEW content \in GoodContents, Remember(content)
  PROVE  /\ Memory' \in GoodContents /\ CallsTyped'
         /\ expired' \subseteq Accounts /\ UNCHANGED <<honoured, issued, dropped>>
<1>1. content \in Contents
  BY DEF GoodContents
<1>2. Memory' = content
  BY <1>1 DEF Remember, Memory, Contents
<1>3. expired' \subseteq Accounts
  BY <1>1 DEF Remember, Contents
<1> QED
  BY <1>2, <1>3, QuietCalls DEF Remember, Typed

LEMMA RestartTyped ==
  ASSUME Typed, Restart, UNCHANGED provider
  PROVE  Typed'
<1>1. CASE Load /\ Remember(Loaded(NoAccounts)) /\ Startup
  <2>1. Loaded(NoAccounts) \in GoodContents
    BY FreshIsGood DEF Loaded, Typed, FilesTyped, Files
  <2>2. FilesTyped'
    BY <1>1, <2>1, RememberTyped DEF Load, Typed, FilesTyped
  <2>3. TokensTyped' /\ CallsTyped'
    BY <1>1, <2>1, RememberTyped DEF Startup, StartCodexRefreshLoop, Typed, TokensTyped
  <2> QED
    BY <2>2, <2>3 DEF Typed
<1>2. CASE CopyFile /\ UNCHANGED <<store, tokens, calls, loops>>
  <2>1. Memory' = Memory /\ UNCHANGED tokens
    BY <1>2 DEF store, tokens, Memory
  <2>2. FilesTyped'
    BY <1>2, <2>1 DEF CopyFile, Typed, FilesTyped
  <2> QED
    BY <1>2, <2>1, <2>2, QuietTokens, QuietCalls DEF Typed
<1>3. CASE RewriteFile(NoAccounts) /\ Remember(NoAccounts) /\ Startup
  <2>1. file' \in Files
    <3>1. [reads |-> "whole", content |-> NoAccounts] \in Files
      BY FreshIsGood DEF Files
    <3> QED
      BY <1>3, <3>1, TornKeeps DEF RewriteFile, Typed, FilesTyped
  <2>2. FilesTyped'
    BY <1>3, <2>1, FreshIsGood, RememberTyped DEF RewriteFile, Typed, FilesTyped
  <2>3. TokensTyped' /\ CallsTyped'
    BY <1>3, FreshIsGood, RememberTyped DEF Startup, StartCodexRefreshLoop, Typed, TokensTyped
  <2> QED
    BY <2>2, <2>3 DEF Typed
<1> QED
  BY <1>1, <1>2, <1>3 DEF Restart

LEMMA InitTyped == Init => Typed
<1> SUFFICES ASSUME Init PROVE Typed
  OBVIOUS
<1>1. StoreTypeOK /\ HealthAgrees
  BY StoreInitial DEF Init
<1>2. token \in [Accounts -> 0..MaxTokens] /\ \A a \in Accounts : token[a] # 0
  BY TokensAssumption DEF Init
<1>3. Memory \in GoodContents
  BY <1>1, <1>2, MemoryIs DEF GoodMemory, StoreTypeOK
<1>4. FilesTyped
  <2>1. StorageInit(Memory)
    BY DEF Init
  <2>2. file \in Files
    BY <1>3, <2>1 DEF StorageInit, Files
  <2>3. warned \in BOOLEAN
    BY <2>1 DEF StorageInit
  <2>4. mode = "down" /\ copy = "none" /\ faults \in 0..MaxFaults
    BY <2>1, FaultsAssumption DEF StorageInit
  <2> QED
    BY <1>3, <2>2, <2>3, <2>4 DEF FilesTyped
<1>5. TokensTyped
  <2>1. 1 \in 1..MaxTokens
    BY TokensAssumption
  <2> QED
    BY <2>1 DEF Init, TokensTyped
<1>6. CallsTyped
  <2>1. call = [c \in Calls |-> Idle] /\ rejected = [c \in Calls |-> 0]
    BY DEF Init
  <2> QED
    BY <2>1, IdleIs, TokensAssumption DEF CallsTyped
<1> QED
  BY <1>4, <1>5, <1>6 DEF Typed

LEMMA NextTyped == Typed /\ [Next]_vars => Typed'
<1> SUFFICES ASSUME Typed, [Next]_vars PROVE Typed'
  OBVIOUS
<1>1. ASSUME NEW c \in Calls, Begin(c) \/ Step(c), UNCHANGED <<provider, loops>>
      PROVE  Typed'
  BY <1>1, BeginTyped, StepTyped
<1>2. ASSUME NEW a \in Accounts, Expires(a) \/ Login(a) \/ Owner(a), UNCHANGED <<provider, loops>>
      PROVE  Typed'
  BY <1>2, ExpiresTyped, LoginTyped, OwnerTyped
<1>3. ASSUME Crash \/ Restart, UNCHANGED provider
      PROVE  Typed'
  BY <1>3, CrashTyped, RestartTyped
<1>4. CASE UNCHANGED vars
  <2>1. UNCHANGED <<store, storage, token>> /\ UNCHANGED <<tokens, provider, loops>> /\ UNCHANGED calls
    BY <1>4 DEF vars, tokens
  <2> QED
    BY <2>1, QuietFiles, QuietTokens, QuietCalls DEF Typed
<1> QED
  BY <1>1, <1>2, <1>3, <1>4 DEF Next

(* In every state that can be reached, the types hold, health labels agree  *)
(* with flags in memory and in the file, and calls nest as they may.        *)
LEMMA AlwaysTyped == Spec => []Typed
BY InitTyped, NextTyped, PTL DEF Spec

(* The variables have their types: for any number of accounts, calls,       *)
(* tokens, rejections and faults.                                           *)
THEOREM RefreshTyped == Spec => []TypeOK
<1>1. Typed => TypeOK
  <2> SUFFICES ASSUME Typed PROVE TypeOK
    OBVIOUS
  <2>1. GoodMemory
    BY MemoryGood DEF Typed
  <2>2. StorageTypeOK([acc : [Accounts -> Account], present : SUBSET Accounts,
                       token : [Accounts -> 0..MaxTokens]])
    BY DEF Typed, FilesTyped, Files, GoodContents, Contents, StorageTypeOK
  <2>3. ASSUME NEW c \in Calls
        PROVE  /\ call[c].for \in Accounts /\ call[c].result \in Results
               /\ \A i \in DOMAIN call[c].frames : FrameOK(call[c].frames[i])
    <3>1. call[c].frames \in Seq(FrameType) /\ Nested(call[c].frames, rejected[c])
      BY CallIs DEF Typed
    <3>2. ASSUME NEW i \in DOMAIN call[c].frames
          PROVE  FrameOK(call[c].frames[i])
      <4>1. i \in 1..Len(call[c].frames) /\ call[c].frames[i] \in FrameType
        BY <3>1
      <4>2. call[c].frames[i].at \in Places[call[c].frames[i].op]
        BY <3>1, <4>1 DEF Nested
      <4> QED
        BY <4>1, <4>2 DEF FrameOK, FrameType, Places
    <3> QED
      BY <3>2, CallIs DEF Typed
  <2> QED
    BY <2>1, <2>2, <2>3 DEF TypeOK, GoodMemory, Typed, TokensTyped, CallsTyped
<1> QED
  BY <1>1, AlwaysTyped, PTL

(* However the provider behaves, a call nests only so deep: the invariant   *)
(* says of every frame how many more it may put on top of itself.           *)
THEOREM NestingBounded == Spec => []NestingNeedsRejection
<1>1. Typed => NestingNeedsRejection
  <2> SUFFICES ASSUME Typed, NEW c \in Calls
               PROVE  Len(call[c].frames) <= 4 + 3 * rejected[c]
    BY DEF NestingNeedsRejection
  <2>1. call[c].frames \in Seq(FrameType) /\ rejected[c] \in Nat
    BY CallIs DEF Typed
  <2>2. CASE Len(call[c].frames) = 0
    BY <2>1, <2>2
  <2>3. CASE Len(call[c].frames) > 0
    <3>1. 1 \in 1..Len(call[c].frames)
      BY <2>1, <2>3
    <3>2. Len(call[c].frames) - 1 + 1 + Need(call[c].frames[1]) <= 4 + 3 * rejected[c]
      BY <3>1, CallIs DEF Typed, Nested
    <3> QED
      BY <2>1, <3>2, NeedIs
  <2> QED
    BY <2>1, <2>2, <2>3
<1> QED
  BY <1>1, AlwaysTyped, PTL

-----------------------------------------------------------------------------
(* Coming back after a crash.                                               *)

LEMMA UpStaysUp ==
  ASSUME \/ \E c \in Calls : Begin(c) \/ Step(c)
         \/ \E a \in Accounts : Expires(a) \/ Login(a) \/ Owner(a)
  PROVE  mode' = mode
<1>1. ASSUME Save(Memory') \/ SaveFails \/ UNCHANGED storage PROVE mode' = mode
  BY <1>1 DEF Save, SaveFails, storage
<1>2. ASSUME NEW c \in Calls, Begin(c) PROVE mode' = mode
  BY <1>1, <1>2 DEF Begin
<1>3. ASSUME NEW c, NEW rec, NEW r, NEW o, UpdateAccount(c, rec, r, o) PROVE mode' = mode
  BY <1>1, <1>3 DEF UpdateAccount, Saved, Unsaved
<1>4. ASSUME NEW c \in Calls, Step(c) PROVE mode' = mode
  BY <1>1, <1>3, <1>4
  DEF Step, Consider, Grant, Refuse, BadIDToken, StoreTokens, Unsaved, QuotaReadAfterwards,
      ReadQuota, TokenIsFresh, TokenIsNotFresh, FetchQuota, StoreQuota, TokenIsRejected,
      TryAgain, LearnAddress
<1>5. ASSUME NEW a \in Accounts, Expires(a) \/ Login(a) \/ Owner(a) PROVE mode' = mode
  BY <1>1, <1>5 DEF Expires, Login, Owner
<1> QED
  BY <1>2, <1>4, <1>5

(* While the file is recovered it is still the unreadable one, and a copy   *)
(* has been tried.                                                          *)
Recovering == mode = "recovering" => copy # "none" /\ file.reads = "cut"

LEMMA RecoveringKept == Typed /\ Recovering /\ [Next]_vars => Recovering'
<1> SUFFICES ASSUME Typed, Recovering, [Next]_vars PROVE Recovering'
  OBVIOUS
<1>1. CASE /\ mode = "up"
           /\ \/ \E c \in Calls : Begin(c) \/ Step(c)
              \/ \E a \in Accounts : Expires(a) \/ Login(a) \/ Owner(a)
  BY <1>1, UpStaysUp DEF Recovering
<1>2. CASE Crash
  BY <1>2 DEF Crash, StorageCrash, Recovering
<1>3. CASE Restart
  BY <1>3 DEF Restart, Load, CopyFile, RewriteFile, Recovering
<1>4. CASE UNCHANGED vars
  BY <1>4 DEF vars, storage, Recovering
<1> QED
  BY <1>1, <1>2, <1>3, <1>4 DEF Next

(* The program comes back with what was saved last, or the file was torn,   *)
(* and then it has tried to copy it and says so: a restart reads the file   *)
(* it found, and the file is not touched between the copy and the rewrite.  *)
THEOREM ComesBack == Spec => ComesBackOrTorn
<1>1. Init => Recovering
  BY DEF Init, StorageInit, Recovering
<1>2. Spec => []Recovering
  BY <1>1, RecoveringKept, AlwaysTyped, PTL DEF Spec
<1>3. ASSUME Typed, Recovering, [Next]_vars, mode # "up", mode' = "up"
      PROVE  \/ file.reads = "whole" /\ Memory' = file.content
             \/ file.reads = "empty" /\ present' = {}
             \/ file.reads = "cut" /\ present' = {} /\ warned' /\ copy # "none"
  <2>1. Restart
    BY <1>3 DEF Next, Crash, StorageCrash, vars, storage
  <2>2. CASE Load /\ Remember(Loaded(NoAccounts))
    <3>1. CASE file.reads = "whole"
      <4>1. file.content \in GoodContents /\ Loaded(NoAccounts) = file.content
        BY <1>3, <3>1 DEF Typed, FilesTyped, Files, Loaded
      <4>2. file.content \in Contents
        BY <4>1 DEF GoodContents
      <4> QED
        BY <2>2, <3>1, <4>1, <4>2 DEF Remember, Memory, Contents
    <3>2. CASE file.reads # "whole"
      <4>1. file.reads = "empty"
        BY <1>3, <2>2, <3>2 DEF Load, Typed, FilesTyped, Files
      <4> QED
        BY <2>2, <4>1 DEF Loaded, Remember, NoAccounts
    <3> QED
      BY <3>1, <3>2
  <2>3. CASE RewriteFile(NoAccounts) /\ Remember(NoAccounts)
    BY <1>3, <2>3 DEF RewriteFile, Recovering, Remember, NoAccounts
  <2> QED
    BY <1>3, <2>1, <2>2, <2>3 DEF Restart, CopyFile
<1>4. Typed /\ Recovering /\ [Next]_vars
        => [mode # "up" /\ mode' = "up" =>
              \/ file.reads = "whole" /\ Memory' = file.content
              \/ file.reads = "empty" /\ present' = {}
              \/ file.reads = "cut" /\ present' = {} /\ warned' /\ copy # "none"]_vars
  BY <1>3
<1> QED
  BY <1>2, <1>4, AlwaysTyped, PTL DEF Spec, ComesBackOrTorn

-----------------------------------------------------------------------------
(* Refresh tokens: who knows which.                                         *)

Sending(c, a, t) == At(c, "renew", "sent") /\ Of(c) = a /\ Top(c).sees = t
Holding(c, a, t) == At(c, "renew", "granted") /\ Of(c) = a /\ Top(c).got = t

(* Every token anyone knows has been issued,                                *)
Bounded ==
  \A a \in Accounts :
    /\ honoured[a] \subseteq 1..issued[a]
    /\ token[a] <= issued[a] /\ file.content.token[a] <= issued[a]

(* and so has every token that is sent;                                     *)
Begun ==
  \A c \in Calls :
    /\ At(c, "renew", "start") \/ At(c, "renew", "sent") => Top(c).got = 0
    /\ At(c, "renew", "sent") => Top(c).sees <= issued[Of(c)]

(* what has just been granted is honoured, and nobody else knows it:        *)
(* that is why no other renewal can use it up before it is stored;          *)
Owned ==
  \A c \in Calls, a \in Accounts, t \in 1..MaxTokens :
    Holding(c, a, t) =>
      /\ t \in honoured[a] /\ token[a] # t
      /\ \A d \in Calls : ~Sending(d, a, t) /\ (Holding(d, a, t) => d = c)

(* the record holds an honoured token, or a call is about to store one;     *)
Current ==
  mode = "up" =>
    \A a \in Accounts \ dropped :
      \/ token[a] \in honoured[a] \cup {0}
      \/ \E c \in Calls : \E t \in honoured[a] : Holding(c, a, t)

(* and while the program is down the file does.                             *)
Stored ==
  mode # "up" =>
    /\ \A c \in Calls : ~Running(c)
    /\ \A a \in Accounts \ dropped : file.content.token[a] \in honoured[a] \cup {0}

Kept == Bounded /\ Begun /\ Owned /\ Current /\ Stored

LEMMA Known ==
  ASSUME Typed
  PROVE  /\ \A a \in Accounts : /\ token[a] \in Nat /\ token[a] \in 0..MaxTokens
                                /\ file.content.token[a] \in 0..MaxTokens
                                /\ file.content.token[a] \in Nat
                                /\ issued[a] \in 1..MaxTokens /\ issued[a] \in Nat
                                /\ honoured[a] \subseteq 1..MaxTokens
         /\ MaxTokens \in Nat
<1>1. GoodMemory /\ MaxTokens \in Nat
  BY MemoryGood, TokensAssumption DEF Typed
<1>2. file.content \in Contents
  BY DEF Typed, FilesTyped, Files, GoodContents
<1> QED
  BY <1>1, <1>2 DEF GoodMemory, Contents, Typed, TokensTyped

LEMMA HoldsOne ==
  ASSUME Typed, NEW c \in Calls, NEW a \in Accounts, NEW t, Holding(c, a, t)
  PROVE  t \in 0..MaxTokens
BY AtIs DEF Holding, Typed, FrameType

(* Of the other calls nothing changes; the call itself, unless it sends or  *)
(* is granted a token, knows none.                                          *)
Rest(c) == \A d \in Calls \ {c} : call'[d] = call[d]
Ceases(c) ==
  /\ Rest(c)
  /\ ~At(c, "renew", "sent")' /\ ~At(c, "renew", "granted")'
  /\ At(c, "renew", "start")' => Top(c)'.got = 0

LEMMA RestIs ==
  ASSUME NEW c \in Calls, Rest(c), NEW d \in Calls \ {c}
  PROVE  /\ Top(d)' = Top(d) /\ Of(d)' = Of(d)
         /\ \A place : At(d, "renew", place)' <=> At(d, "renew", place)
         /\ \A a, t : (Sending(d, a, t)' <=> Sending(d, a, t))
                      /\ (Holding(d, a, t)' <=> Holding(d, a, t))
<1>1. call'[d] = call[d]
  BY DEF Rest
<1> QED
  BY <1>1 DEF Top, Of, At, Running, Sending, Holding

LEMMA CallOne ==
  ASSUME CallsTyped, NEW c \in Calls, NEW k, call' = [call EXCEPT ![c] = k]
  PROVE  Rest(c) /\ call'[c] = k
BY DEF CallsTyped, Rest

LEMMA ReturnCeases ==
  ASSUME CallsTyped, NEW c \in Calls, NEW r \in Results \ {"none"}, Return(c, r)
  PROVE  Ceases(c)
<1> DEFINE k == IF Len(call[c].frames) = 1 THEN Idle
                ELSE [call[c] EXCEPT !.frames = Tail(@), !.result = r]
<1>1. call' = [call EXCEPT ![c] = k]
  BY DEF Return
<1>2. k.frames = <<>> \/ k.result # "none"
  BY CallIs DEF Idle, CallType
<1> HIDE DEF k
<1>3. Rest(c) /\ call'[c] = k
  BY <1>1, CallOne
<1> QED
  BY <1>2, <1>3 DEF Ceases, At, Running

LEMMA TopCeases ==
  ASSUME CallsTyped, NEW c \in Calls, Rest(c),
         Top(c)'.op = "quota" \/ (Top(c)'.at = "start" /\ Top(c)'.got = 0)
  PROVE  Ceases(c)
<1>1. ASSUME NEW place, At(c, "renew", place)'
      PROVE  Top(c)'.op = "renew" /\ Top(c)'.at = place
  BY <1>1 DEF At
<1> QED
  BY <1>1 DEF Ceases

LEMMA GotoCeases ==
  ASSUME CallsTyped, NEW c \in Calls, Running(c), NEW place \in Places[Top(c).op],
         place # "start", Top(c).op = "quota", Goto(c, place)
  PROVE  Ceases(c)
<1> DEFINE f == [Top(c) EXCEPT !.at = place]
           t == <<f>> \o Tail(call[c].frames)
           k == [call[c] EXCEPT !.frames = t, !.result = "none"]
<1>1. f \in FrameType /\ f.op = "quota"
  BY TopIs, FrameAt
<1>2. call' = [call EXCEPT ![c] = k]
  BY DEF Goto, Move
<1>3. Head(t) = f
  <2> HIDE DEF f
  <2> QED
    BY <1>1, CallIs, Replaced, Popped DEF Running
<1>4. k.frames = t
  <2> HIDE DEF t
  <2> QED
    BY CallIs DEF CallType
<1> HIDE DEF f, t, k
<1>5. Rest(c) /\ Top(c)' = f
  BY <1>2, <1>3, <1>4, CallOne DEF Top
<1> QED
  BY <1>1, <1>5, TopCeases

LEMMA PushCeases ==
  ASSUME CallsTyped, NEW c \in Calls, Running(c), NEW f, NEW g \in FrameType,
         g.at = "start", g.got = 0,
         call' = [call EXCEPT ![c] = [call[c] EXCEPT !.frames = <<g, f>> \o Tail(call[c].frames),
                                                     !.result = "none"]]
  PROVE  Ceases(c)
<1> DEFINE t == <<g, f>> \o Tail(call[c].frames)
           k == [call[c] EXCEPT !.frames = t, !.result = "none"]
<1>1. Head(t) = g
  OBVIOUS
<1>2. k.frames = t
  <2> HIDE DEF t
  <2> QED
    BY CallIs DEF CallType
<1>3. call' = [call EXCEPT ![c] = k]
  OBVIOUS
<1> HIDE DEF t, k
<1>4. Rest(c) /\ Top(c)' = g
  BY <1>1, <1>2, <1>3, CallOne DEF Top
<1> QED
  BY <1>4, TopCeases

(* A step that neither grants nor stores a token.                           *)
LEMMA QuietKept ==
  ASSUME Typed, Kept, NEW c \in Calls, Ceases(c), ~At(c, "renew", "granted"),
         UNCHANGED tokens, Filed, mode = "up"
  PROVE  Kept'
<1>1. UNCHANGED <<token, honoured, issued, dropped>>
  BY DEF tokens
<1>2. file'.content.token = token' \/ file'.content = file.content
  BY TornKeeps DEF Filed, Save, SaveFails, storage, Memory, Typed, FilesTyped
<1>3. mode' = "up"
  BY DEF Filed, Save, SaveFails, storage
<1>4. Bounded'
  BY <1>1, <1>2 DEF Kept, Bounded
<1>5. ASSUME NEW d \in Calls, d # c
      PROVE  /\ Top(d)' = Top(d) /\ Of(d)' = Of(d)
             /\ \A place : At(d, "renew", place)' <=> At(d, "renew", place)
             /\ \A a, t : (Sending(d, a, t)' <=> Sending(d, a, t))
                          /\ (Holding(d, a, t)' <=> Holding(d, a, t))
  BY <1>5, RestIs DEF Ceases
<1>6. \A a, t : ~Sending(c, a, t)' /\ ~Holding(c, a, t)' /\ ~Holding(c, a, t)
  BY DEF Ceases, Sending, Holding
<1>7. Begun'
  BY <1>1, <1>5 DEF Kept, Begun, Ceases
<1>8. Owned'
  BY <1>1, <1>5, <1>6 DEF Kept, Owned
<1>9. Current'
  <2>1. ASSUME NEW a \in Accounts \ dropped', token'[a] \notin honoured'[a] \cup {0}
        PROVE  \E d \in Calls : \E t \in honoured'[a] : Holding(d, a, t)'
    <3>1. PICK d \in Calls, t \in honoured[a] : Holding(d, a, t)
      BY <1>1, <2>1 DEF Kept, Current
    <3> QED
      BY <1>1, <1>5, <1>6, <3>1
  <2> QED
    BY <2>1 DEF Current
<1> QED
  BY <1>3, <1>4, <1>7, <1>8, <1>9 DEF Kept, Stored

LEMMA ReturnKept ==
  ASSUME Typed, Kept, NEW c \in Calls, NEW r \in Results \ {"none"}, Return(c, r),
         ~At(c, "renew", "granted"), UNCHANGED tokens, Filed, mode = "up"
  PROVE  Kept'
BY ReturnCeases, QuietKept DEF Typed

LEMMA UpdateKept ==
  ASSUME Typed, Kept, NEW c \in Calls, NEW rec, NEW r \in Results \ {"none"},
         NEW o \in Results \ {"none"}, UpdateAccount(c, rec, r, o),
         ~At(c, "renew", "granted"), mode = "up"
  PROVE  Kept'
<1>1. UNCHANGED tokens /\ Filed /\ (Return(c, r) \/ Return(c, o))
  BY DEF UpdateAccount, Saved, Unsaved, Filed
<1> QED
  BY <1>1, ReturnKept

LEMMA GotoKept ==
  ASSUME Typed, Kept, NEW c \in Calls, Running(c), NEW place \in Places[Top(c).op],
         place # "start", Top(c).op = "quota", Goto(c, place),
         UNCHANGED <<storage, tokens>>, mode = "up"
  PROVE  Kept'
<1>1. ~At(c, "renew", "granted") /\ Filed
  BY DEF At, Filed
<1> QED
  BY <1>1, GotoCeases, QuietKept DEF Typed

LEMMA PushKept ==
  ASSUME Typed, Kept, NEW c \in Calls, Running(c), NEW f, NEW g \in FrameType,
         g.at = "start", g.got = 0,
         call' = [call EXCEPT ![c] = [call[c] EXCEPT !.frames = <<g, f>> \o Tail(call[c].frames),
                                                     !.result = "none"]],
         ~At(c, "renew", "granted"), UNCHANGED <<storage, tokens>>, mode = "up"
  PROVE  Kept'
<1>1. Filed
  BY DEF Filed
<1> QED
  BY <1>1, PushCeases, QuietKept DEF Typed

LEMMA Reasons3 ==
  AuthReasons \subseteq Results \ {"none"} /\ {"ok", "plain"} \subseteq Results \ {"none"}
BY DEF Results, AuthReasons

LEMMA StoreQuotaKept ==
  ASSUME Typed, Kept, NEW c \in Calls, NEW results \in SUBSET (Results \ {"none"}),
         StoreQuota(c, results), ~At(c, "renew", "granted"), mode = "up"
  PROVE  Kept'
<1>1. "plain" \in Results \ {"none"}
  BY Reasons3
<1> QED
  BY <1>1, UpdateKept DEF StoreQuota

LEMMA NotGranted ==
  ASSUME NEW c, NEW op, NEW place, At(c, op, place) \/ Back(c, op, place),
         <<op, place>> # <<"renew", "granted">>
  PROVE  ~At(c, "renew", "granted")
BY DEF At, Back

LEMMA QuietStepKept ==
  ASSUME Typed, Kept, mode = "up", NEW c \in Calls,
         \/ Refuse(c) \/ QuotaReadAfterwards(c) \/ TokenIsFresh(c) \/ TokenIsNotFresh(c)
         \/ FetchQuota(c) \/ TryAgain(c) \/ LearnAddress(c)
  PROVE  Kept'
<1>1. CASE Refuse(c)
  <2>1. PICK why \in AuthReasons : Return(c, why) /\ UNCHANGED tokens /\ Filed
    BY <1>1 DEF Refuse, Filed
  <2>2. ~At(c, "renew", "granted")
    BY <1>1, NotGranted DEF Refuse
  <2> QED
    BY <2>1, <2>2, Reasons3, ReturnKept
<1>2. CASE QuotaReadAfterwards(c)
  <2>1. call[c].result \in Results \ {"none"} /\ ~At(c, "renew", "granted")
    BY <1>2, AtIs DEF QuotaReadAfterwards, Back, At, Typed
  <2> QED
    BY <1>2, <2>1, ReturnKept DEF QuotaReadAfterwards, Filed
<1>3. CASE TokenIsFresh(c)
  <2>1. Running(c) /\ Top(c).op = "quota" /\ "fetch" \in Places["quota"]
    BY <1>3, AtIs DEF TokenIsFresh, Typed, Places
  <2> QED
    BY <1>3, <2>1, GotoKept DEF TokenIsFresh
<1>4. CASE TokenIsNotFresh(c)
  <2>1. call[c].result \in Results \ {"none"} /\ ~At(c, "renew", "granted")
    BY <1>4, AtIs DEF TokenIsNotFresh, Back, At, Typed
  <2>2. CASE UpdateAccount(c, QuotaAuthFailure(acc[Of(c)], call[c].result, Top(c).sees),
                           call[c].result, call[c].result)
    BY <2>1, <2>2, UpdateKept
  <2>3. CASE Return(c, call[c].result) /\ UNCHANGED <<store, storage, tokens>>
    BY <2>1, <2>3, ReturnKept DEF Filed
  <2> QED
    BY <1>4, <2>2, <2>3 DEF TokenIsNotFresh
<1>5. CASE FetchQuota(c)
  <2>1. Running(c) /\ Top(c).op = "quota" /\ ~At(c, "renew", "granted")
    BY <1>5, AtIs, NotGranted DEF FetchQuota, Typed
  <2>2. CASE StoreQuota(c, {"ok"} \cup AuthReasons)
    BY <2>1, <2>2, Reasons3, StoreQuotaKept
  <2>3. CASE Goto(c, "email") /\ UNCHANGED <<store, storage, tokens>>
    <3>1. "email" \in Places["quota"]
      BY DEF Places
    <3> QED
      BY <2>1, <2>3, <3>1, GotoKept
  <2> QED
    BY <1>5, <2>2, <2>3 DEF FetchQuota
<1>6. CASE TryAgain(c)
  <2>1. Running(c) /\ Top(c).op = "quota" /\ ~At(c, "renew", "granted")
    BY <1>6, AtIs, NotGranted DEF TryAgain, Typed
  <2>2. CASE StoreQuota(c, AuthReasons)
    BY <2>1, <2>2, Reasons3, StoreQuotaKept
  <2>3. CASE Goto(c, "again") /\ UNCHANGED <<store, storage, tokens>>
    <3>1. "again" \in Places["quota"]
      BY DEF Places
    <3> QED
      BY <2>1, <2>3, <3>1, GotoKept
  <2> QED
    BY <1>6, <2>2, <2>3 DEF TryAgain
<1>7. CASE LearnAddress(c)
  <2>1. Running(c) /\ Top(c).op = "quota" /\ ~At(c, "renew", "granted")
    BY <1>7, AtIs, NotGranted DEF LearnAddress, Typed
  <2>2. CASE StoreQuota(c, {"ok"})
    BY <2>1, <2>2, Reasons3, StoreQuotaKept
  <2>3. CASE Goto(c, "learned") /\ UNCHANGED <<store, storage, tokens>>
    <3>1. "learned" \in Places["quota"]
      BY DEF Places
    <3> QED
      BY <2>1, <2>3, <3>1, GotoKept
  <2> QED
    BY <1>7, <2>2, <2>3 DEF LearnAddress
<1> QED
  BY <1>1, <1>2, <1>3, <1>4, <1>5, <1>6, <1>7

LEMMA ReadQuotaKept ==
  ASSUME Typed, Kept, mode = "up", NEW c \in Calls, ReadQuota(c)
  PROVE  Kept'
<1> DEFINE f == [Top(c) EXCEPT !.at = "asked", !.sees = acc[Of(c)].cooldown]
           g == EnsureFresh(c)
<1>1. /\ Running(c) /\ Top(c) \in FrameType /\ ~At(c, "renew", "granted")
      /\ call[c].result = "none" /\ UNCHANGED <<store, storage, tokens>>
  BY AtIs, NotGranted DEF ReadQuota, Typed, At
<1>2. CASE Return(c, "plain")
  BY <1>1, <1>2, Reasons3, ReturnKept DEF Filed
<1>3. CASE call' = [call EXCEPT ![c].frames = <<g, f>> \o Tail(@)]
  <2>1. Top(c).forced \in BOOLEAN
    BY <1>1 DEF FrameType
  <2>2. g \in FrameType /\ g.at = "start" /\ g.got = 0
    BY <2>1, FrameNew DEF EnsureFresh, Frame
  <2> HIDE DEF f, g
  <2>3. call' = [call EXCEPT ![c] = [call[c] EXCEPT !.frames = <<g, f>> \o Tail(call[c].frames),
                                                    !.result = "none"]]
    <3>1. call[c] \in CallType
      BY CallIs DEF Typed
    <3>2. ASSUME NEW t
          PROVE  [call[c] EXCEPT !.frames = t] = [call[c] EXCEPT !.frames = t, !.result = "none"]
      BY <1>1, <3>1 DEF CallType
    <3> QED
      BY <1>3, <3>2
  <2> QED
    BY <1>1, <2>2, <2>3, PushKept
<1> QED
  BY <1>2, <1>3 DEF ReadQuota

LEMMA TokenIsRejectedKept ==
  ASSUME Typed, Kept, mode = "up", NEW c \in Calls, TokenIsRejected(c)
  PROVE  Kept'
<1> DEFINE g == Frame("renew", TRUE)
<1>1. PICK place : Invoke(c, place, g)
  BY DEF TokenIsRejected
<1>2. g \in FrameType /\ g.at = "start" /\ g.got = 0
  BY FrameNew DEF Frame
<1>3. At(c, "quota", "fetch") \/ At(c, "quota", "email")
  BY DEF TokenIsRejected
<1>4. Running(c) /\ ~At(c, "renew", "granted") /\ UNCHANGED <<storage, tokens>>
  BY <1>3, AtIs, NotGranted DEF TokenIsRejected, Typed
<1> HIDE DEF g
<1> QED
  BY <1>1, <1>2, <1>4, PushKept DEF Invoke

LEMMA BeginKept ==
  ASSUME Typed, Kept, mode = "up", NEW c \in Calls, Begin(c)
  PROVE  Kept'
<1>1. PICK a \in present, op \in {"renew", "quota"}, forced \in BOOLEAN :
        call' = [call EXCEPT ![c] = [for |-> a, frames |-> <<Frame(op, forced)>>,
                                     result |-> "none"]]
  BY DEF Begin
<1> DEFINE k == [for |-> a, frames |-> <<Frame(op, forced)>>, result |-> "none"]
<1>2. Head(k.frames).at = "start" /\ Head(k.frames).got = 0
  BY DEF Frame
<1>3. call' = [call EXCEPT ![c] = k]
  BY <1>1
<1> HIDE DEF k
<1>4. Rest(c) /\ Top(c)'.at = "start" /\ Top(c)'.got = 0
  BY <1>2, <1>3, CallOne DEF Typed, Top
<1>5. ~At(c, "renew", "granted") /\ Filed /\ UNCHANGED tokens
  BY DEF Begin, At, Filed
<1> QED
  BY <1>4, <1>5, TopCeases, QuietKept DEF Typed

LEMMA RenewMoves ==
  ASSUME CallsTyped, NEW c \in Calls, Running(c), NEW f \in FrameType, Move(c, f)
  PROVE  /\ Rest(c) /\ Top(c)' = f /\ Of(c)' = Of(c)
         /\ \A place : At(c, "renew", place)' <=> f.op = "renew" /\ f.at = place
<1> DEFINE t == <<f>> \o Tail(call[c].frames)
           k == [call[c] EXCEPT !.frames = t, !.result = "none"]
<1>1. call' = [call EXCEPT ![c] = k]
  BY DEF Move
<1>2. Head(t) = f /\ t # <<>>
  BY CallIs, Replaced, Popped DEF Running
<1>3. k.frames = t /\ k.for = call[c].for /\ k.result = "none"
  <2> HIDE DEF t
  <2> QED
    BY CallIs DEF CallType
<1> HIDE DEF t, k
<1> QED
  BY <1>1, <1>2, <1>3, CallOne DEF Top, Of, At, Running

(* The token that is sent is the one in the record, and so not one that     *)
(* another renewal is about to store.                                       *)
LEMMA ConsiderKept ==
  ASSUME Typed, Kept, mode = "up", NEW c \in Calls, Consider(c)
  PROVE  Kept'
<1> DEFINE f == [Top(c) EXCEPT !.at = "sent", !.sees = token[Of(c)]]
<1>1. /\ Running(c) /\ Of(c) \in Accounts /\ Top(c) \in FrameType /\ Top(c).op = "renew"
      /\ ~At(c, "renew", "granted") /\ UNCHANGED <<storage, tokens>>
      /\ Top(c).got = 0
  BY AtIs, NotGranted DEF Consider, Typed, Kept, Begun
<1>2. CASE \E r \in {"ok", "plain"} : Return(c, r)
  BY <1>1, <1>2, Reasons3, ReturnKept DEF Filed
<1>3. CASE Move(c, f)
  <2>1. token[Of(c)] \in Nat /\ token[Of(c)] <= issued[Of(c)]
    BY <1>1, Known DEF Kept, Bounded
  <2>2. f \in FrameType /\ f.op = "renew" /\ f.at = "sent" /\ f.got = 0 /\ f.sees = token[Of(c)]
    BY <1>1, <2>1 DEF FrameType, AllPlaces, Places
  <2> HIDE DEF f
  <2>3. /\ Rest(c) /\ Top(c)' = f /\ Of(c)' = Of(c)
        /\ \A place : At(c, "renew", place)' <=> place = "sent"
    BY <1>1, <1>3, <2>2, RenewMoves DEF Typed
  <2>4. UNCHANGED <<token, honoured, issued, dropped, file, mode>>
    BY <1>1 DEF tokens, storage
  <2>5. ASSUME NEW d \in Calls, d # c
        PROVE  /\ Top(d)' = Top(d) /\ Of(d)' = Of(d)
               /\ \A place : At(d, "renew", place)' <=> At(d, "renew", place)
               /\ \A a, t : (Sending(d, a, t)' <=> Sending(d, a, t))
                            /\ (Holding(d, a, t)' <=> Holding(d, a, t))
    BY <2>3, <2>5, RestIs
  <2>6. \A a, t : ~Holding(c, a, t)' /\ ~Holding(c, a, t)
    BY <1>1, <2>3 DEF Holding
  <2>7. \A a, t : Sending(c, a, t)' => t = token[a]
    BY <2>2, <2>3 DEF Sending
  <2>8. Begun'
    BY <2>1, <2>2, <2>3, <2>4, <2>5 DEF Kept, Begun
  <2>9. Owned'
    BY <2>4, <2>5, <2>6, <2>7 DEF Kept, Owned
  <2>10. Current'
    <3>1. ASSUME NEW a \in Accounts \ dropped', token'[a] \notin honoured'[a] \cup {0}
          PROVE  \E d \in Calls : \E t \in honoured'[a] : Holding(d, a, t)'
      <4>1. PICK d \in Calls, t \in honoured[a] : Holding(d, a, t)
        BY <2>4, <3>1 DEF Kept, Current
      <4> QED
        BY <2>4, <2>5, <2>6, <4>1
    <3> QED
      BY <3>1 DEF Current
  <2> QED
    BY <2>4, <2>8, <2>9, <2>10 DEF Kept, Bounded, Stored
<1> QED
  BY <1>2, <1>3 DEF Consider

(* A granted token is a new one: nobody has it; and if it replaces the one  *)
(* that was sent, that was none a call is about to store.                   *)
Granted(c, next) ==
  /\ next \in 1..MaxTokens /\ next = issued[Of(c)] + 1
  /\ issued' = [issued EXCEPT ![Of(c)] = next]
  /\ \E old \in SUBSET {Top(c).sees} :
       honoured' = [honoured EXCEPT ![Of(c)] = (@ \ old) \cup {next}]
  /\ UNCHANGED <<token, file, mode>>

LEMMA GrantedIs ==
  ASSUME Typed, Kept, NEW c \in Calls, At(c, "renew", "sent"), NEW next, Granted(c, next)
  PROVE  /\ Bounded'
         /\ \A a \in Accounts : a # Of(c) => honoured'[a] = honoured[a] /\ issued'[a] = issued[a]
         /\ issued'[Of(c)] = next /\ next \in honoured'[Of(c)]
         /\ \A t \in honoured[Of(c)] : t # Top(c).sees => t \in honoured'[Of(c)]
         /\ \A a \in Accounts : issued[a] <= issued'[a] /\ issued'[a] \in Nat
         /\ next \notin honoured[Of(c)] /\ token[Of(c)] # next /\ next # 0
         /\ \A d \in Calls : ~Sending(d, Of(c), next) /\ ~Holding(d, Of(c), next)
<1> DEFINE x == Of(c)
<1>1. x \in Accounts /\ Top(c) \in FrameType
  BY AtIs DEF Typed
<1>2. /\ next \in Nat /\ next = issued[x] + 1 /\ issued[x] \in Nat /\ token[x] \in Nat
      /\ token[x] <= issued[x] /\ honoured[x] \subseteq 1..issued[x]
      /\ file.content.token[x] \in Nat /\ file.content.token[x] <= issued[x]
      /\ next # 0 /\ next \in 1..MaxTokens
  BY <1>1, Known DEF Granted, Kept, Bounded
<1>3. PICK old \in SUBSET {Top(c).sees} :
        honoured' = [honoured EXCEPT ![x] = (@ \ old) \cup {next}]
  BY DEF Granted
<1>4. /\ honoured'[x] = (honoured[x] \ old) \cup {next} /\ issued'[x] = next
      /\ \A a \in Accounts : a # x => honoured'[a] = honoured[a] /\ issued'[a] = issued[a]
  BY <1>1, <1>3 DEF Granted, Typed, TokensTyped
<1>5. next \notin honoured[x] /\ token[x] # next
  BY <1>2
<1>6. \A a \in Accounts : issued[a] <= issued'[a] /\ issued'[a] \in Nat
  BY <1>2, <1>4, Known
<1>7. Bounded'
  <2>1. ASSUME NEW a \in Accounts
        PROVE  /\ honoured'[a] \subseteq 1..issued'[a]
               /\ token[a] <= issued'[a] /\ file.content.token[a] <= issued'[a]
    <3>1. CASE a = x
      BY <1>2, <1>4, <3>1
    <3>2. CASE a # x
      BY <1>4, <3>2 DEF Kept, Bounded
    <3> QED
      BY <3>1, <3>2
  <2> QED
    BY <2>1 DEF Bounded, Granted
<1>8. ASSUME NEW d \in Calls PROVE ~Sending(d, x, next) /\ ~Holding(d, x, next)
  <2>1. ~Sending(d, x, next)
    <3>1. SUFFICES ASSUME Sending(d, x, next) PROVE FALSE
      OBVIOUS
    <3>2. At(d, "renew", "sent") /\ Of(d) = x /\ Top(d).sees = next
      BY <3>1 DEF Sending
    <3>3. next <= issued[x]
      BY <3>2 DEF Kept, Begun
    <3> QED
      BY <1>2, <3>3
  <2>2. Holding(d, x, next) => next \in honoured[x]
    BY <1>1, <1>2 DEF Kept, Owned
  <2> QED
    BY <1>5, <2>1, <2>2
<1> QED
  BY <1>2, <1>4, <1>5, <1>6, <1>7, <1>8

(* Whoever else holds a token still does, and it is still honoured.         *)
LEMMA GrantedLeaves ==
  ASSUME Typed, Kept, NEW c \in Calls, At(c, "renew", "sent"), NEW next, Granted(c, next),
         NEW d \in Calls, NEW a \in Accounts, NEW t \in 1..MaxTokens, Holding(d, a, t)
  PROVE  t \in honoured'[a] /\ (a = Of(c) => t # next)
<1>1. t \in honoured[a] /\ ~Sending(c, a, t)
  BY DEF Kept, Owned
<1>2. a = Of(c) => t # Top(c).sees
  BY <1>1 DEF Sending
<1> QED
  BY <1>1, <1>2, GrantedIs

LEMMA GrantHeldKept ==
  ASSUME Typed, Kept, mode = "up", NEW c \in Calls, At(c, "renew", "sent"),
         NEW next, Granted(c, next), UNCHANGED dropped, NEW f \in FrameType,
         f.op = "renew", f.at = "granted", f.got = next, Move(c, f)
  PROVE  Kept'
<1> DEFINE x == Of(c)
<1>1. Running(c) /\ x \in Accounts
  BY AtIs DEF Typed
<1>2. /\ Rest(c) /\ Top(c)' = f /\ Of(c)' = x
      /\ \A place : At(c, "renew", place)' <=> place = "granted"
  BY <1>1, RenewMoves DEF Typed
<1>3. ASSUME NEW d \in Calls, d # c
      PROVE  /\ Top(d)' = Top(d) /\ Of(d)' = Of(d)
             /\ \A place : At(d, "renew", place)' <=> At(d, "renew", place)
             /\ \A a, t : (Sending(d, a, t)' <=> Sending(d, a, t))
                          /\ (Holding(d, a, t)' <=> Holding(d, a, t))
  BY <1>2, <1>3, RestIs
<1>4. \A a, t : ~Sending(c, a, t)' /\ (Holding(c, a, t)' <=> a = x /\ t = next)
  BY <1>2 DEF Sending, Holding
<1>5. UNCHANGED <<token, file, mode>>
  BY DEF Granted
<1>6. Begun'
  <2>1. ASSUME NEW d \in Calls, At(d, "renew", "sent")'
        PROVE  Top(d)'.sees <= issued'[Of(d)']
    <3>1. d # c /\ At(d, "renew", "sent")
      BY <1>2, <1>3, <2>1
    <3>2. Top(d).sees <= issued[Of(d)] /\ Of(d) \in Accounts /\ Top(d).sees \in Nat
      BY <3>1, AtIs DEF Kept, Begun, Typed, FrameType
    <3>3. issued[Of(d)] \in Nat /\ issued'[Of(d)] \in Nat /\ issued[Of(d)] <= issued'[Of(d)]
      BY <3>2, GrantedIs, Known
    <3>4. Top(d)' = Top(d) /\ Of(d)' = Of(d)
      BY <1>3, <3>1
    <3> QED
      BY <3>2, <3>3, <3>4
  <2>2. ASSUME NEW d \in Calls, At(d, "renew", "start")' \/ At(d, "renew", "sent")'
        PROVE  Top(d)'.got = 0
    BY <1>2, <1>3, <2>2 DEF Kept, Begun
  <2> QED
    BY <2>1, <2>2 DEF Begun
<1>7. Owned'
  <2> SUFFICES ASSUME NEW e \in Calls, NEW a \in Accounts, NEW t \in 1..MaxTokens,
                      Holding(e, a, t)'
               PROVE  /\ t \in honoured'[a] /\ token'[a] # t
                      /\ \A d \in Calls : ~Sending(d, a, t)' /\ (Holding(d, a, t)' => d = e)
    BY DEF Owned
  <2>1. CASE e = c
    <3>1. a = x /\ t = next
      BY <1>4, <2>1
    <3> QED
      BY <1>3, <1>4, <1>5, <2>1, <3>1, GrantedIs
  <2>2. CASE e # c
    <3>1. Holding(e, a, t)
      BY <1>3, <2>2
    <3>2. token[a] # t /\ \A d \in Calls : ~Sending(d, a, t) /\ (Holding(d, a, t) => d = e)
      BY <3>1 DEF Kept, Owned
    <3>3. t \in honoured'[a] /\ ~(a = x /\ t = next)
      BY <3>1, GrantedLeaves
    <3> QED
      BY <1>3, <1>4, <1>5, <3>2, <3>3
  <2> QED
    BY <2>1, <2>2
<1>8. Current'
  <2>1. ASSUME NEW a \in Accounts \ dropped', token'[a] \notin honoured'[a] \cup {0}
        PROVE  \E d \in Calls : \E t \in honoured'[a] : Holding(d, a, t)'
    <3>1. CASE a = x
      BY <1>4, <3>1, GrantedIs
    <3>2. CASE a # x
      <4>1. honoured'[a] = honoured[a]
        BY <3>2, GrantedIs
      <4>2. PICK d \in Calls, t \in honoured[a] : Holding(d, a, t)
        BY <1>5, <2>1, <4>1 DEF Kept, Current
      <4>3. d # c
        BY <3>2, <4>2 DEF Holding
      <4> QED
        BY <1>3, <4>1, <4>2, <4>3
    <3> QED
      BY <3>1, <3>2
  <2> QED
    BY <2>1 DEF Current
<1> QED
  BY <1>5, <1>6, <1>7, <1>8, GrantedIs DEF Kept, Stored

LEMMA GrantLostKept ==
  ASSUME Typed, Kept, mode = "up", NEW c \in Calls, At(c, "renew", "sent"),
         NEW next, Granted(c, next), dropped' = dropped \cup {Of(c)}, Ceases(c)
  PROVE  Kept'
<1> DEFINE x == Of(c)
<1>3. ASSUME NEW d \in Calls, d # c
      PROVE  /\ Top(d)' = Top(d) /\ Of(d)' = Of(d)
             /\ \A place : At(d, "renew", place)' <=> At(d, "renew", place)
             /\ \A a, t : (Sending(d, a, t)' <=> Sending(d, a, t))
                          /\ (Holding(d, a, t)' <=> Holding(d, a, t))
  BY <1>3, RestIs DEF Ceases
<1>4. \A a, t : ~Sending(c, a, t)' /\ ~Holding(c, a, t)'
  BY DEF Sending, Holding, Ceases
<1>5. UNCHANGED <<token, file, mode>>
  BY DEF Granted
<1>6. Begun'
  <2>1. ASSUME NEW d \in Calls, At(d, "renew", "sent")'
        PROVE  Top(d)'.sees <= issued'[Of(d)']
    <3>1. d # c /\ At(d, "renew", "sent")
      BY <1>3, <2>1 DEF Ceases
    <3>2. Top(d).sees <= issued[Of(d)] /\ Of(d) \in Accounts /\ Top(d).sees \in Nat
      BY <3>1, AtIs DEF Kept, Begun, Typed, FrameType
    <3>3. issued[Of(d)] \in Nat /\ issued'[Of(d)] \in Nat /\ issued[Of(d)] <= issued'[Of(d)]
      BY <3>2, GrantedIs, Known
    <3>4. Top(d)' = Top(d) /\ Of(d)' = Of(d)
      BY <1>3, <3>1
    <3> QED
      BY <3>2, <3>3, <3>4
  <2>2. ASSUME NEW d \in Calls, At(d, "renew", "start")' \/ At(d, "renew", "sent")'
        PROVE  Top(d)'.got = 0
    BY <1>3, <2>2 DEF Kept, Begun, Ceases
  <2> QED
    BY <2>1, <2>2 DEF Begun
<1>7. Owned'
  <2> SUFFICES ASSUME NEW e \in Calls, NEW a \in Accounts, NEW t \in 1..MaxTokens,
                      Holding(e, a, t)'
               PROVE  /\ t \in honoured'[a] /\ token'[a] # t
                      /\ \A d \in Calls : ~Sending(d, a, t)' /\ (Holding(d, a, t)' => d = e)
    BY DEF Owned
  <2>1. e # c /\ Holding(e, a, t)
    BY <1>3, <1>4
  <2>2. token[a] # t /\ \A d \in Calls : ~Sending(d, a, t) /\ (Holding(d, a, t) => d = e)
    BY <2>1 DEF Kept, Owned
  <2> QED
    BY <1>3, <1>4, <1>5, <2>1, <2>2, GrantedLeaves
<1>8. Current'
  <2>1. ASSUME NEW a \in Accounts \ dropped', token'[a] \notin honoured'[a] \cup {0}
        PROVE  \E d \in Calls : \E t \in honoured'[a] : Holding(d, a, t)'
    <3>1. a # x /\ honoured'[a] = honoured[a] /\ a \notin dropped
      BY <2>1, GrantedIs
    <3>2. PICK d \in Calls, t \in honoured[a] : Holding(d, a, t)
      BY <1>5, <2>1, <3>1 DEF Kept, Current
    <3>3. d # c
      BY <3>1, <3>2 DEF Holding
    <3> QED
      BY <1>3, <3>1, <3>2, <3>3
  <2> QED
    BY <2>1 DEF Current
<1> QED
  BY <1>5, <1>6, <1>7, <1>8, GrantedIs DEF Kept, Stored

(* The old tokens are still good.                                           *)
LEMMA GrantOldKept ==
  ASSUME Typed, Kept, mode = "up", NEW c \in Calls, At(c, "renew", "sent"),
         Goto(c, "granted"), UNCHANGED <<storage, tokens>>
  PROVE  Kept'
<1> DEFINE f == [Top(c) EXCEPT !.at = "granted"]
<1>1. Running(c) /\ Of(c) \in Accounts /\ Top(c) \in FrameType /\ Top(c).op = "renew" /\ Top(c).got = 0
  BY AtIs DEF Typed, Kept, Begun
<1>2. f \in FrameType /\ f.op = "renew" /\ f.at = "granted" /\ f.got = 0
  <2>1. "granted" \in AllPlaces
    BY DEF AllPlaces, Places
  <2> QED
    BY <1>1, <2>1 DEF FrameType
<1>3. Move(c, f)
  BY DEF Goto
<1> HIDE DEF f
<1>4. /\ Rest(c) /\ Top(c)' = f
      /\ \A place : At(c, "renew", place)' <=> place = "granted"
  BY <1>1, <1>2, <1>3, RenewMoves DEF Typed
<1>5. UNCHANGED <<token, honoured, issued, dropped, file, mode>>
  BY DEF tokens, storage
<1>6. ASSUME NEW d \in Calls, d # c
      PROVE  /\ Top(d)' = Top(d) /\ Of(d)' = Of(d)
             /\ \A place : At(d, "renew", place)' <=> At(d, "renew", place)
             /\ \A a, t : (Sending(d, a, t)' <=> Sending(d, a, t))
                          /\ (Holding(d, a, t)' <=> Holding(d, a, t))
  BY <1>4, <1>6, RestIs
<1>7. \A a, t : (Holding(c, a, t)' => t = 0) /\ ~Holding(c, a, t) /\ ~Sending(c, a, t)'
  BY <1>1, <1>2, <1>4 DEF Holding, Sending, At
<1>8. Begun'
  BY <1>4, <1>5, <1>6 DEF Kept, Begun
<1>9. Owned'
  BY <1>5, <1>6, <1>7 DEF Kept, Owned
<1>10. Current'
  <2>1. ASSUME NEW a \in Accounts \ dropped', token'[a] \notin honoured'[a] \cup {0}
        PROVE  \E d \in Calls : \E t \in honoured'[a] : Holding(d, a, t)'
    <3>1. PICK d \in Calls, t \in honoured[a] : Holding(d, a, t)
      BY <1>5, <2>1 DEF Kept, Current
    <3> QED
      BY <1>5, <1>6, <1>7, <3>1
  <2> QED
    BY <2>1 DEF Current
<1> QED
  BY <1>5, <1>8, <1>9, <1>10 DEF Kept, Bounded, Stored

LEMMA GrantKept ==
  ASSUME Typed, Kept, mode = "up", NEW c \in Calls, Grant(c)
  PROVE  Kept'
<1> DEFINE next == issued[Of(c)] + 1
           f == [Top(c) EXCEPT !.at = "granted", !.got = next]
<1>1. At(c, "renew", "sent") /\ UNCHANGED <<store, storage, token, expired, rejected>>
  BY DEF Grant
<1>2. /\ Running(c) /\ Of(c) \in Accounts /\ Top(c) \in FrameType /\ Top(c).op = "renew"
  BY <1>1, AtIs DEF Typed
<1>3. CASE Move(c, [Top(c) EXCEPT !.at = "granted"]) /\ UNCHANGED <<honoured, issued, dropped>>
  BY <1>1, <1>3, GrantOldKept DEF Goto, tokens
<1>4. CASE /\ next <= MaxTokens /\ issued' = [issued EXCEPT ![Of(c)] = next]
           /\ \E old \in SUBSET {Top(c).sees} :
                honoured' = [honoured EXCEPT ![Of(c)] = (@ \ old) \cup {next}]
           /\ \/ Move(c, f) /\ UNCHANGED dropped
              \/ Return(c, "plain") /\ dropped' = dropped \cup {Of(c)}
  <2>1. next \in 1..MaxTokens
    BY <1>2, <1>4, Known
  <2>2. Granted(c, next)
    BY <1>1, <1>4, <2>1 DEF Granted, storage
  <2>3. f \in FrameType /\ f.op = "renew" /\ f.at = "granted" /\ f.got = next
    <3>1. next \in 0..MaxTokens /\ "granted" \in AllPlaces
      BY <2>1, Known DEF AllPlaces, Places
    <3> HIDE DEF next
    <3> QED
      BY <1>2, <3>1 DEF FrameType
  <2> HIDE DEF next, f
  <2>4. CASE Move(c, f) /\ UNCHANGED dropped
    BY <1>1, <2>2, <2>3, <2>4, GrantHeldKept
  <2>5. CASE Return(c, "plain") /\ dropped' = dropped \cup {Of(c)}
    BY <1>1, <2>2, <2>5, Reasons3, ReturnCeases, GrantLostKept DEF Typed
  <2> QED
    BY <1>4, <2>4, <2>5
<1> QED
  BY <1>3, <1>4 DEF Grant

(* A granted token is stored, or else it is lost.                           *)
LEMMA StoringKept ==
  ASSUME Typed, Kept, mode = "up", NEW c \in Calls, At(c, "renew", "granted"), Ceases(c), Filed,
         UNCHANGED <<honoured, issued>>,
         \/ UNCHANGED dropped /\ StoreToken(c, Of(c))
         \/ UNCHANGED token /\ dropped' = IF Top(c).got = 0 THEN dropped ELSE dropped \cup {Of(c)}
  PROVE  Kept'
<1> DEFINE x == Of(c)
           g == Top(c).got
<1>1. x \in Accounts /\ g \in 0..MaxTokens
  BY AtIs DEF Typed, FrameType
<1>2. \A a, t : Holding(c, a, t) <=> a = x /\ t = g
  BY DEF Holding
<1>3. ASSUME NEW d \in Calls, d # c
      PROVE  /\ Top(d)' = Top(d) /\ Of(d)' = Of(d)
             /\ \A place : At(d, "renew", place)' <=> At(d, "renew", place)
             /\ \A a, t : (Sending(d, a, t)' <=> Sending(d, a, t))
                          /\ (Holding(d, a, t)' <=> Holding(d, a, t))
  BY <1>3, RestIs DEF Ceases
<1>4. \A a, t : ~Sending(c, a, t)' /\ ~Holding(c, a, t)'
  BY DEF Sending, Holding, Ceases
<1>5. g # 0 => g \in honoured[x]
  <2>1. g # 0 => g \in 1..MaxTokens
    BY <1>1, Known
  <2> QED
    BY <1>1, <1>2, <2>1 DEF Kept, Owned
<1>6. mode' = "up" /\ (file'.content.token = token' \/ file'.content = file.content)
  <2>1. CASE Save(Memory')
    BY <2>1 DEF Save, Memory
  <2>2. CASE SaveFails
    BY <2>2, TornKeeps DEF SaveFails, Typed, FilesTyped
  <2>3. CASE UNCHANGED storage
    BY <2>3 DEF storage
  <2> QED
    BY <2>1, <2>2, <2>3 DEF Filed
<1>7. \A a \in Accounts : token'[a] = token[a] \/ (a = x /\ g # 0 /\ token'[a] = g)
  BY <1>1, MemoryGood DEF StoreToken, Typed, GoodMemory
<1>8. \A a \in Accounts : a # x \/ g = 0 => token'[a] = token[a]
  BY <1>1, MemoryGood DEF StoreToken, Typed, GoodMemory
<1> HIDE DEF x, g
<1>9. Bounded'
  <2>1. ASSUME NEW a \in Accounts PROVE token'[a] <= issued[a]
    BY <1>1, <1>5, <1>7, Known DEF Kept, Bounded
  <2> QED
    BY <1>6, <2>1 DEF Kept, Bounded
<1>10. Begun'
  BY <1>3 DEF Kept, Begun, Ceases
<1>11. Owned'
  <2> SUFFICES ASSUME NEW e \in Calls, NEW a \in Accounts, NEW t \in 1..MaxTokens,
                      Holding(e, a, t)'
               PROVE  /\ t \in honoured'[a] /\ token'[a] # t
                      /\ \A d \in Calls : ~Sending(d, a, t)' /\ (Holding(d, a, t)' => d = e)
    BY DEF Owned
  <2>1. e # c /\ Holding(e, a, t)
    BY <1>3, <1>4
  <2>2. /\ t \in honoured[a] /\ token[a] # t
        /\ \A d \in Calls : ~Sending(d, a, t) /\ (Holding(d, a, t) => d = e)
    BY <2>1 DEF Kept, Owned
  <2>3. ~(a = x /\ t = g)
    BY <1>2, <2>1, <2>2
  <2> QED
    BY <1>3, <1>4, <1>7, <2>2, <2>3
<1>12. Current'
  <2>1. ASSUME NEW a \in Accounts \ dropped', token'[a] \notin honoured'[a] \cup {0}
        PROVE  \E d \in Calls : \E t \in honoured'[a] : Holding(d, a, t)'
    <3>1. a \notin dropped /\ (a # x \/ g = 0)
      <4>1. CASE UNCHANGED dropped /\ StoreToken(c, Of(c))
        <5>1. a = x /\ g # 0 => token'[a] = g
          BY <1>1, <4>1, MemoryGood DEF x, g, StoreToken, Typed, GoodMemory
        <5> QED
          BY <1>5, <2>1, <4>1, <5>1
      <4>2. CASE dropped' = IF g = 0 THEN dropped ELSE dropped \cup {x}
        BY <2>1, <4>2
      <4> QED
        BY <4>1, <4>2 DEF x, g
    <3>2. token'[a] = token[a]
      BY <1>8, <2>1, <3>1
    <3>3. PICK d \in Calls, t \in honoured[a] : Holding(d, a, t)
      BY <2>1, <3>1, <3>2 DEF Kept, Current
    <3>4. t # 0
      BY <2>1, <3>3, Known
    <3>5. d # c
      BY <1>2, <3>1, <3>3, <3>4
    <3> QED
      BY <1>3, <3>3, <3>5
  <2> QED
    BY <2>1 DEF Current
<1> QED
  BY <1>6, <1>9, <1>10, <1>11, <1>12 DEF Kept, Stored

LEMMA StoreTokensKept ==
  ASSUME Typed, Kept, mode = "up", NEW c \in Calls, StoreTokens(c) \/ BadIDToken(c)
  PROVE  Kept'
<1>1. At(c, "renew", "granted")
  BY DEF StoreTokens, BadIDToken
<1>2. CASE /\ Return(c, "plain") /\ TokenIsLost(c) /\ UNCHANGED storage
  <2>1. /\ UNCHANGED <<honoured, issued, token>>
        /\ dropped' = IF Top(c).got = 0 THEN dropped ELSE dropped \cup {Of(c)}
    BY <1>2 DEF TokenIsLost
  <2>2. Ceases(c) /\ Filed
    BY <1>2, Reasons3, ReturnCeases DEF Typed, Filed
  <2> QED
    BY <1>1, <2>1, <2>2, StoringKept
<1>3. CASE /\ StoreToken(c, Of(c)) /\ UNCHANGED <<honoured, issued, dropped>>
           /\ Filed
           /\ \/ Invoke(c, "renewed", Frame("quota", FALSE))
              \/ Return(c, "ok") \/ Return(c, "plain")
  <2>1. CASE Invoke(c, "renewed", Frame("quota", FALSE))
    <3> DEFINE h == Frame("quota", FALSE)
    <3>1. h \in FrameType /\ h.at = "start" /\ h.got = 0
      BY FrameNew DEF Frame
    <3>2. Invoke(c, "renewed", h)
      BY <2>1
    <3> HIDE DEF h
    <3>3. Running(c)
      BY <1>1 DEF At
    <3>4. Ceases(c)
      BY <3>1, <3>2, <3>3, PushCeases DEF Typed, Invoke
    <3> QED
      BY <1>1, <1>3, <3>4, StoringKept
  <2>2. CASE Return(c, "ok") \/ Return(c, "plain")
    <3>1. Ceases(c)
      BY <2>2, Reasons3, ReturnCeases DEF Typed
    <3> QED
      BY <1>1, <1>3, <3>1, StoringKept
  <2> QED
    BY <1>3, <2>1, <2>2
<1>4. CASE StoreTokens(c) /\ Of(c) \in present
  <2>1. /\ StoreToken(c, Of(c)) /\ UNCHANGED <<honoured, issued, dropped>>
        /\ \/ Save(Memory') /\ IF Top(c).forced
                               THEN Invoke(c, "renewed", Frame("quota", FALSE))
                               ELSE Return(c, "ok")
           \/ Unsaved(c, "plain")
    BY <1>4 DEF StoreTokens
  <2>2. /\ Filed
        /\ \/ Invoke(c, "renewed", Frame("quota", FALSE))
           \/ Return(c, "ok") \/ Return(c, "plain")
    <3>1. CASE Save(Memory') /\ Top(c).forced /\ Invoke(c, "renewed", Frame("quota", FALSE))
      BY <3>1 DEF Filed
    <3>2. CASE Save(Memory') /\ Return(c, "ok")
      BY <3>2 DEF Filed
    <3>3. CASE Unsaved(c, "plain")
      BY <3>3 DEF Filed, Unsaved
    <3> QED
      BY <2>1, <3>1, <3>2, <3>3
  <2> QED
    BY <1>3, <2>1, <2>2
<1>5. CASE StoreTokens(c) /\ Of(c) \notin present
  BY <1>2, <1>5 DEF StoreTokens
<1>6. CASE BadIDToken(c)
  BY <1>2, <1>6 DEF BadIDToken
<1> QED
  BY <1>4, <1>5, <1>6

LEMMA StepKept ==
  ASSUME Typed, Kept, mode = "up", NEW c \in Calls, Step(c)
  PROVE  Kept'
BY ConsiderKept, GrantKept, StoreTokensKept, QuietStepKept, ReadQuotaKept, TokenIsRejectedKept
DEF Step

(* The calls stand still.                                                   *)
LEMMA CallsStill ==
  ASSUME UNCHANGED call, NEW d \in Calls
  PROVE  /\ Top(d)' = Top(d) /\ Of(d)' = Of(d) /\ (Running(d)' <=> Running(d))
         /\ \A place : At(d, "renew", place)' <=> At(d, "renew", place)
         /\ \A a, t : (Sending(d, a, t)' <=> Sending(d, a, t))
                      /\ (Holding(d, a, t)' <=> Holding(d, a, t))
BY DEF Top, Of, At, Running, Sending, Holding

LEMMA StillKept ==
  ASSUME Typed, Kept, UNCHANGED <<call, token, honoured, issued, dropped, mode>>,
         mode # "up" => UNCHANGED file,
         file'.content.token = token' \/ file'.content = file.content
  PROVE  Kept'
<1>1. Bounded'
  BY DEF Kept, Bounded
<1>2. Begun'
  BY CallsStill DEF Kept, Begun
<1>3. Owned'
  BY CallsStill DEF Kept, Owned
<1>4. Current'
  BY CallsStill DEF Kept, Current
<1>5. Stored'
  BY CallsStill DEF Kept, Stored
<1> QED
  BY <1>1, <1>2, <1>3, <1>4, <1>5 DEF Kept

LEMMA FiledTokens ==
  ASSUME Typed, Filed
  PROVE  mode' = mode /\ (file'.content.token = token' \/ file'.content = file.content)
<1>1. CASE Save(Memory')
  BY <1>1 DEF Save, Memory
<1>2. CASE SaveFails
  BY <1>2, TornKeeps DEF SaveFails, Typed, FilesTyped
<1>3. CASE UNCHANGED storage
  BY <1>3 DEF storage
<1> QED
  BY <1>1, <1>2, <1>3 DEF Filed

LEMMA WorldKept ==
  ASSUME Typed, Kept, mode = "up", NEW a \in Accounts, Expires(a) \/ Owner(a)
  PROVE  Kept'
<1>1. UNCHANGED <<call, token, honoured, issued, dropped>> /\ Filed
  BY DEF Expires, Owner, tokens, calls, Filed
<1> QED
  BY <1>1, FiledTokens, StillKept

LEMMA LoginKept ==
  ASSUME Typed, Kept, mode = "up", NEW x \in Accounts, Login(x)
  PROVE  Kept'
<1> DEFINE next == issued[x] + 1
<1>1. /\ UNCHANGED call /\ Filed /\ dropped' = dropped \ {x}
      /\ token' = [token EXCEPT ![x] = next]
      /\ issued' = [issued EXCEPT ![x] = next]
      /\ honoured' = [honoured EXCEPT ![x] = @ \cup {next}]
  BY DEF Login, Filed, calls, Typed, TokensTyped
<1>2. /\ issued[x] \in Nat /\ next \in Nat /\ next > issued[x] /\ honoured[x] \subseteq 1..issued[x]
      /\ token[x] <= issued[x] /\ file.content.token[x] <= issued[x] /\ file.content.token[x] \in Nat
  BY Known DEF Kept, Bounded
<1>3. /\ token'[x] = next /\ issued'[x] = next /\ honoured'[x] = honoured[x] \cup {next}
      /\ \A a \in Accounts : a # x => /\ token'[a] = token[a] /\ issued'[a] = issued[a]
                                      /\ honoured'[a] = honoured[a]
  BY <1>1, MemoryGood DEF Typed, TokensTyped, GoodMemory
<1> HIDE DEF next
<1>4. mode' = "up" /\ (file'.content.token = token' \/ file'.content = file.content)
  BY <1>1, FiledTokens
<1>5. Bounded'
  <2>1. ASSUME NEW a \in Accounts
        PROVE  /\ honoured'[a] \subseteq 1..issued'[a] /\ token'[a] <= issued'[a]
               /\ file.content.token[a] <= issued'[a]
    <3>1. CASE a = x
      BY <1>2, <1>3, <3>1
    <3>2. CASE a # x
      BY <1>3, <3>2 DEF Kept, Bounded
    <3> QED
      BY <3>1, <3>2
  <2> QED
    BY <1>4, <2>1 DEF Bounded
<1>6. Begun'
  <2>1. ASSUME NEW d \in Calls, At(d, "renew", "sent") PROVE Top(d).sees <= issued'[Of(d)]
    <3>1. Of(d) \in Accounts /\ Top(d).sees \in Nat /\ Top(d).sees <= issued[Of(d)]
      BY <2>1, AtIs DEF Kept, Begun, Typed, FrameType
    <3> QED
      BY <1>2, <1>3, <3>1
  <2> QED
    BY <1>1, <2>1, CallsStill DEF Kept, Begun
<1>7. Owned'
  <2> SUFFICES ASSUME NEW e \in Calls, NEW a \in Accounts, NEW t \in 1..MaxTokens,
                      Holding(e, a, t)
               PROVE  /\ t \in honoured'[a] /\ token'[a] # t
                      /\ \A d \in Calls : ~Sending(d, a, t) /\ (Holding(d, a, t) => d = e)
    BY <1>1, CallsStill DEF Owned
  <2>1. /\ t \in honoured[a] /\ token[a] # t
        /\ \A d \in Calls : ~Sending(d, a, t) /\ (Holding(d, a, t) => d = e)
    BY DEF Kept, Owned
  <2> QED
    BY <1>2, <1>3, <2>1
<1>8. Current'
  <2>1. ASSUME NEW a \in Accounts \ dropped', token'[a] \notin honoured'[a] \cup {0}
        PROVE  \E d \in Calls : \E t \in honoured'[a] : Holding(d, a, t)'
    <3>1. a # x /\ a \notin dropped
      BY <1>1, <1>3, <2>1
    <3>2. PICK d \in Calls, t \in honoured[a] : Holding(d, a, t)
      BY <1>3, <2>1, <3>1 DEF Kept, Current
    <3> QED
      BY <1>1, <1>3, <3>1, <3>2, CallsStill
  <2> QED
    BY <2>1 DEF Current
<1> QED
  BY <1>4, <1>5, <1>6, <1>7, <1>8 DEF Kept, Stored

(* With no call under way nobody holds a token.                             *)
LEMMA NobodyHolds ==
  ASSUME \A c \in Calls : ~Running(c)
  PROVE  /\ Begun /\ Owned
         /\ \A c \in Calls : \A a, t : ~Holding(c, a, t)
BY DEF Begun, Owned, Holding, Sending, At

LEMMA NobodyHoldsNext ==
  ASSUME \A c \in Calls : ~Running(c)'
  PROVE  /\ Begun' /\ Owned'
         /\ \A c \in Calls : \A a, t : ~Holding(c, a, t)'
BY DEF Begun, Owned, Holding, Sending, At

LEMMA IdleRuns == ASSUME NEW c \in Calls, call = [d \in Calls |-> Idle] PROVE ~Running(c)
BY DEF Running, Idle

LEMMA CrashKept ==
  ASSUME Typed, Kept, Crash
  PROVE  Kept'
<1>1. UNCHANGED <<token, honoured, issued>> /\ StorageCrash /\ call' = [c \in Calls |-> Idle]
  BY DEF Crash
<1>2. mode' = "down" /\ file'.content = file.content
  BY <1>1, TornKeeps DEF StorageCrash, Typed, FilesTyped
<1>3. \A c \in Calls : ~Running(c)'
  BY <1>1 DEF Running, Idle
<1>4. ASSUME NEW a \in Accounts \ dropped' PROVE file.content.token[a] \in honoured[a] \cup {0}
  <2>1. a \notin dropped /\ InHand(a) = {} /\ file.content.token[a] = token[a]
    BY <1>4 DEF Crash
  <2>2. CASE mode = "up"
    <3>1. ASSUME NEW c \in Calls, NEW t \in honoured[a], Holding(c, a, t) PROVE FALSE
      <4>1. t # 0
        BY Known
      <4>2. t \in InHand(a)
        BY <3>1, <4>1 DEF InHand, Holding
      <4> QED
        BY <2>1, <4>2
    <3> QED
      BY <2>1, <2>2, <3>1 DEF Kept, Current
  <2>3. CASE mode # "up"
    BY <2>1, <2>3 DEF Kept, Stored
  <2> QED
    BY <2>2, <2>3
<1>5. Bounded' /\ Stored'
  BY <1>1, <1>2, <1>3, <1>4 DEF Kept, Bounded, Stored
<1> QED
  BY <1>2, <1>3, <1>5, NobodyHoldsNext DEF Kept, Current

LEMMA RestartKept ==
  ASSUME Typed, Kept, Restart
  PROVE  Kept'
<1>1. mode # "up" /\ UNCHANGED <<call, honoured, issued, dropped>>
  BY DEF Restart, Load, CopyFile, RewriteFile, Remember, tokens, calls
<1>2. \A c \in Calls : ~Running(c)'
  BY <1>1, CallsStill DEF Kept, Stored
<1>3. \A a \in Accounts : NoAccounts.token[a] = 0 /\ issued[a] \in Nat
  BY Known DEF NoAccounts
<1>4. CASE CopyFile /\ UNCHANGED <<store, tokens, calls, loops>>
  <2>1. mode' # "up" /\ UNCHANGED <<token, file>>
    BY <1>4 DEF CopyFile, tokens
  <2>2. Bounded' /\ Stored'
    BY <1>1, <1>2, <2>1 DEF Kept, Bounded, Stored
  <2> QED
    BY <1>2, <2>1, <2>2, NobodyHoldsNext DEF Kept, Current
<1>5. CASE /\ Load /\ Remember(Loaded(NoAccounts))
  <2>1. mode' = "up" /\ UNCHANGED file /\ token' = Loaded(NoAccounts).token
    BY <1>5 DEF Load, Remember
  <2>2. token' = file.content.token \/ token' = NoAccounts.token
    BY <2>1 DEF Loaded
  <2>3. Bounded'
    BY <1>1, <1>3, <2>1, <2>2 DEF Kept, Bounded
  <2>4. Current'
    BY <1>1, <1>3, <2>2 DEF Kept, Stored, Current
  <2> QED
    BY <1>2, <2>1, <2>3, <2>4, NobodyHoldsNext DEF Kept, Stored
<1>6. CASE RewriteFile(NoAccounts) /\ Remember(NoAccounts)
  <2>1. mode' = "up" /\ token' = NoAccounts.token
    BY <1>6 DEF RewriteFile, Remember
  <2>2. file'.content = file.content \/ file'.content = NoAccounts
    BY <1>6, TornKeeps DEF RewriteFile, Typed, FilesTyped
  <2>3. Bounded'
    BY <1>1, <1>3, <2>1, <2>2 DEF Kept, Bounded
  <2>4. Current'
    BY <1>3, <2>1 DEF Current
  <2> QED
    BY <1>2, <2>1, <2>3, <2>4, NobodyHoldsNext DEF Kept, Stored
<1> QED
  BY <1>4, <1>5, <1>6 DEF Restart

LEMMA InitKept == Init => Kept
<1> SUFFICES ASSUME Init PROVE Kept
  OBVIOUS
<1>1. /\ token = [a \in Accounts |-> 1] /\ honoured = [a \in Accounts |-> {1}]
      /\ issued = [a \in Accounts |-> 1] /\ call = [c \in Calls |-> Idle]
  BY DEF Init
<1>2. mode = "down" /\ file.content = Memory
  BY DEF Init, StorageInit
<1>3. \A c \in Calls : ~Running(c)
  BY <1>1, IdleRuns
<1>4. Bounded /\ Stored
  BY <1>1, <1>2, <1>3 DEF Bounded, Stored, Memory
<1> QED
  BY <1>2, <1>3, <1>4, NobodyHolds DEF Kept, Current

LEMMA NextKept == Typed /\ Kept /\ [Next]_vars => Kept'
<1> SUFFICES ASSUME Typed, Kept, [Next]_vars PROVE Kept'
  OBVIOUS
<1>1. CASE mode = "up" /\ \E c \in Calls : Begin(c) \/ Step(c)
  BY <1>1, BeginKept, StepKept
<1>2. CASE mode = "up" /\ \E a \in Accounts : Expires(a) \/ Login(a) \/ Owner(a)
  BY <1>2, WorldKept, LoginKept
<1>3. CASE Crash \/ Restart
  BY <1>3, CrashKept, RestartKept
<1>4. CASE UNCHANGED vars
  <2>1. UNCHANGED <<call, token, honoured, issued, dropped, mode, file>>
    BY <1>4 DEF vars, tokens, calls, storage
  <2> QED
    BY <2>1, StillKept
<1> QED
  BY <1>1, <1>2, <1>3, <1>4 DEF Next

(* However many calls renew an account at once, and whatever crashes in     *)
(* between, the record ends up with a refresh token the provider accepts.   *)
THEOREM TokenKept == Spec => []RenewedTokenIsKept
<1>1. Typed /\ Kept => RenewedTokenIsKept
  <2> SUFFICES ASSUME Typed, Kept, mode = "up", NEW a \in present \ dropped,
                      token[a] \notin honoured[a]
               PROVE  InHand(a) \cap honoured[a] # {}
    BY DEF RenewedTokenIsKept
  <2>1. a \in Accounts /\ token[a] # 0
    BY MemoryGood DEF Typed, GoodMemory, StoreTypeOK
  <2>2. PICK c \in Calls, t \in honoured[a] : Holding(c, a, t)
    BY <2>1 DEF Kept, Current
  <2>3. t # 0
    BY <2>1, Known
  <2>4. t \in InHand(a)
    BY <2>2, <2>3 DEF InHand, Holding
  <2> QED
    BY <2>4
<1> QED
  BY <1>1, InitKept, NextKept, AlwaysTyped, PTL DEF Spec

-----------------------------------------------------------------------------
(* The writers of the accounts.  Where the cooldowns the program chooses    *)
(* itself are among those a quota may be reported with, so is every         *)
(* cooldown that is ever stored, or read by a call.                         *)

Waits == QuotaResets \cup {0}
Timed(x) == x.cooldown \in Waits /\ x.reset \in Waits
SeesTimed(f) == f.op = "quota" => f.sees \in Waits
Watched(s) == \A i \in 1..Len(s) : SeesTimed(s[i])
InTime ==
  /\ \A a \in Accounts : Timed(acc[a]) /\ Timed(file.content.acc[a])
  /\ \A c \in Calls : Watched(call[c].frames)

LEMMA WritesTimed ==
  ASSUME {AuthCooldown, LongCooldown} \subseteq QuotaResets, NEW x \in Account, Timed(x)
  PROVE  /\ \A on \in BOOLEAN : Timed(SetEnabled(x, on))
         /\ Timed(ClearTransientCooldown(x)) /\ Timed(TokenRenewed(x))
         /\ \A why \in AuthReasons : Timed(RefreshRejected(x, why))
         /\ \A why \in AuthReasons, seen \in Waits : Timed(QuotaAuthFailure(x, why, seen))
         /\ \A status \in QuotaStatuses, reset \in Waits : Timed(ApplyQuotaSnapshot(x, status, reset))
         /\ \A banned, exhausted \in BOOLEAN, cooldown, reset \in Waits :
              Timed(Reconnected(banned, cooldown, exhausted, reset))
<1>0. /\ 0 \in Waits /\ AuthCooldown \in Waits /\ LongCooldown \in Waits
      /\ x.cooldown \in Waits /\ x.reset \in Waits
  BY DEF Waits, Timed
<1>1. \A on \in BOOLEAN : Timed(SetEnabled(x, on))
  BY <1>0 DEF Timed, SetEnabled, Account
<1>2. Timed(ClearTransientCooldown(x)) /\ Timed(TokenRenewed(x))
  BY <1>0 DEF Timed, ClearTransientCooldown, TokenRenewed, Account
<1>3. \A why \in AuthReasons : Timed(RefreshRejected(x, why))
  BY <1>0 DEF Timed, RefreshRejected, MarkBanned, MarkReloginRequired, NoQuota, QuotaServed, Account
<1>4. \A why \in AuthReasons, seen \in Waits : Timed(QuotaAuthFailure(x, why, seen))
  BY <1>0 DEF Timed, QuotaAuthFailure, Account
<1>5. \A status \in QuotaStatuses, reset \in Waits : Timed(ApplyQuotaSnapshot(x, status, reset))
  BY <1>0 DEF Timed, ApplyQuotaSnapshot, Account
<1>6. \A banned, exhausted \in BOOLEAN, cooldown, reset \in Waits :
        Timed(Reconnected(banned, cooldown, exhausted, reset))
  BY <1>0 DEF Timed, Reconnected, FreshAccount
<1> QED
  BY <1>1, <1>2, <1>3, <1>4, <1>5, <1>6

LEMMA DisturbTimed ==
  ASSUME {AuthCooldown, LongCooldown} \subseteq QuotaResets, StoreTypeOK,
         \A a \in Accounts : Timed(acc[a]), NEW b \in Accounts, Disturb(b)
  PROVE  \A a \in Accounts : Timed(acc'[a])
<1>1. acc[b] \in Account /\ Timed(acc[b]) /\ acc \in [Accounts -> Account]
  BY DEF StoreTypeOK
<1>2. ASSUME NEW rec, Timed(rec), acc' = acc \/ acc' = [acc EXCEPT ![b] = rec]
      PROVE  \A a \in Accounts : Timed(acc'[a])
  BY <1>1, <1>2
<1>3. ASSUME NEW rec, Write(b, rec) PROVE acc' = acc \/ acc' = [acc EXCEPT ![b] = rec]
  BY <1>3 DEF Write
<1>4. CASE \E on \in BOOLEAN : OwnerSwitches(b, on)
  BY <1>1, <1>2, <1>3, <1>4, WritesTimed DEF OwnerSwitches
<1>5. CASE OwnerClears(b)
  BY <1>1, <1>2, <1>3, <1>5, WritesTimed DEF OwnerClears
<1>6. CASE OwnerDeletes(b)
  BY <1>6 DEF OwnerDeletes
<1>7. CASE OwnerConnects(b)
  BY <1>1, <1>2, <1>7, WritesTimed DEF OwnerConnects, Waits
<1>8. CASE SnapshotArrives(b)
  BY <1>1, <1>2, <1>3, <1>8, WritesTimed DEF SnapshotArrives, Waits
<1>9. CASE QuotaAuthFails(b)
  BY <1>1, <1>2, <1>3, <1>9, WritesTimed DEF QuotaAuthFails, Waits
<1>10. CASE TokenRenewedElsewhere(b)
  BY <1>1, <1>2, <1>3, <1>10, WritesTimed DEF TokenRenewedElsewhere
<1>11. CASE TokenRejectedElsewhere(b)
  BY <1>1, <1>2, <1>3, <1>11, WritesTimed DEF TokenRejectedElsewhere
<1> QED
  BY <1>4, <1>5, <1>6, <1>7, <1>8, <1>9, <1>10, <1>11 DEF Disturb

LEMMA UpdateDisturbs ==
  ASSUME NEW c \in Calls, NEW rec, NEW r, NEW o, UpdateAccount(c, rec, r, o)
  PROVE  Write(Of(c), rec)
BY DEF UpdateAccount

LEMMA TopTimed ==
  ASSUME Typed, InTime, NEW c \in Calls, Running(c)
  PROVE  SeesTimed(Top(c))
<1>1. Top(c) = call[c].frames[1] /\ 1 \in 1..Len(call[c].frames)
  BY CallIs, Popped DEF Running, Top, Typed
<1> QED
  BY <1>1 DEF InTime, Watched

(* Every step of a call is one of those the request paths are checked with. *)
LEMMA StepDisturbs ==
  ASSUME Typed, InTime, NEW c \in Calls, Step(c)
  PROVE  UNCHANGED store \/ (Of(c) \in Accounts /\ Disturb(Of(c)))
<1>1. ASSUME NEW results, StoreQuota(c, results) PROVE SnapshotArrives(Of(c))
  BY <1>1, UpdateDisturbs DEF StoreQuota, SnapshotArrives
<1>2. CASE Refuse(c)
  <2>1. Of(c) \in Accounts /\ TokenRejectedElsewhere(Of(c))
    BY <1>2, AtIs DEF Refuse, Typed, TokenRejectedElsewhere
  <2> QED
    BY <2>1 DEF Disturb
<1>3. CASE StoreTokens(c)
  <2>1. Of(c) \in Accounts
    BY <1>3, AtIs DEF StoreTokens, Typed
  <2> QED
    BY <1>3, <2>1 DEF StoreTokens, Disturb, TokenRenewedElsewhere
<1>4. CASE TokenIsNotFresh(c)
  <2>1. /\ Of(c) \in Accounts /\ Running(c) /\ Top(c).op = "quota"
        /\ call[c].result \in Results /\ call[c].result # "none" /\ call[c].result # "ok"
    BY <1>4, AtIs DEF TokenIsNotFresh, Typed, Back
  <2>2. call[c].result \in AuthReasons /\ Top(c).sees \in Waits
    BY <2>1, ResultsAre, TopTimed DEF SeesTimed
  <2>3. CASE UpdateAccount(c, QuotaAuthFailure(acc[Of(c)], call[c].result, Top(c).sees),
                           call[c].result, call[c].result)
    <3>1. Write(Of(c), QuotaAuthFailure(acc[Of(c)], call[c].result, Top(c).sees))
      BY <2>3, UpdateDisturbs
    <3> QED
      BY <2>1, <2>2, <3>1 DEF QuotaAuthFails, Waits, Disturb
  <2> QED
    BY <1>4, <2>3 DEF TokenIsNotFresh
<1>5. CASE FetchQuota(c)
  <2>1. Of(c) \in Accounts
    BY <1>5, AtIs DEF FetchQuota, Typed
  <2> QED
    BY <1>1, <1>5, <2>1 DEF FetchQuota, Disturb
<1>6. CASE TryAgain(c)
  <2>1. Of(c) \in Accounts
    BY <1>6, AtIs DEF TryAgain, Typed
  <2> QED
    BY <1>1, <1>6, <2>1 DEF TryAgain, Disturb
<1>7. CASE LearnAddress(c)
  <2>1. Of(c) \in Accounts
    BY <1>7, AtIs DEF LearnAddress, Typed
  <2> QED
    BY <1>1, <1>7, <2>1 DEF LearnAddress, Disturb
<1> QED
  BY <1>2, <1>3, <1>4, <1>5, <1>6, <1>7
  DEF Step, Consider, Grant, BadIDToken, QuotaReadAfterwards, ReadQuota, TokenIsFresh,
      TokenIsRejected

LEMMA OthersDisturb ==
  ASSUME NEW a \in Accounts, Expires(a) \/ Login(a) \/ Owner(a)
  PROVE  UNCHANGED store \/ Disturb(a)
BY DEF Expires, Login, Owner, Disturb

CallsWatched == \A c \in Calls : Watched(call[c].frames)

LEMMA OneWatched ==
  ASSUME CallsTyped, CallsWatched, NEW c \in Calls, NEW k, call' = [call EXCEPT ![c] = k],
         Watched(k.frames)
  PROVE  CallsWatched'
<1>1. call'[c] = k /\ \A d \in Calls : d # c => call'[d] = call[d]
  BY DEF CallsTyped
<1>2. ASSUME NEW d \in Calls PROVE Watched(call'[d].frames)
  BY <1>1 DEF CallsWatched
<1> QED
  BY <1>2 DEF CallsWatched, Watched, SeesTimed

LEMMA ReturnWatched ==
  ASSUME CallsTyped, CallsWatched, NEW c \in Calls, Running(c), NEW r, Return(c, r)
  PROVE  CallsWatched'
<1> DEFINE k == IF Len(call[c].frames) = 1 THEN Idle
                ELSE [call[c] EXCEPT !.frames = Tail(@), !.result = r]
           s == call[c].frames
<1>1. /\ Len(Tail(s)) = Len(s) - 1 /\ Len(s) \in Nat \ {0}
      /\ \A i \in 1..(Len(s) - 1) : Tail(s)[i] = s[i + 1]
  BY CallIs, Popped DEF Running
<1>2. Watched(s)
  BY DEF CallsWatched
<1>3. Watched(Tail(s))
  BY <1>1, <1>2 DEF Watched
<1>4. Watched(<<>>)
  BY DEF Watched
<1>5. k.frames = <<>> \/ k.frames = Tail(s)
  BY CallIs DEF Idle, CallType
<1>6. call' = [call EXCEPT ![c] = k]
  BY DEF Return
<1> HIDE DEF k
<1> QED
  BY <1>3, <1>4, <1>5, <1>6, OneWatched

LEMMA MoveWatched ==
  ASSUME CallsTyped, CallsWatched, NEW c \in Calls, Running(c), NEW f \in FrameType,
         SeesTimed(f), Move(c, f)
  PROVE  CallsWatched'
<1> DEFINE s == call[c].frames
           t == <<f>> \o Tail(s)
           k == [call[c] EXCEPT !.frames = t, !.result = "none"]
<1>1. Len(t) = Len(s) /\ t[1] = f /\ \A i \in 2..Len(s) : t[i] = s[i]
  BY CallIs, Replaced DEF Running
<1>2. Watched(s) /\ Len(s) \in Nat
  BY CallIs DEF CallsWatched
<1>3. k.frames = t /\ call' = [call EXCEPT ![c] = k]
  <2>1. call' = [call EXCEPT ![c] = k]
    BY DEF Move
  <2> HIDE DEF t
  <2> QED
    BY <2>1, CallIs DEF CallType
<1> HIDE DEF t, k
<1>4. Watched(t)
  <2>1. ASSUME NEW i \in 1..Len(t) PROVE SeesTimed(t[i])
    <3>1. CASE i = 1
      BY <1>1, <3>1
    <3>2. CASE i # 1
      BY <1>1, <1>2, <3>2 DEF Watched
    <3> QED
      BY <3>1, <3>2
  <2> QED
    BY <2>1 DEF Watched
<1> QED
  BY <1>3, <1>4, OneWatched

LEMMA PushWatched ==
  ASSUME CallsTyped, CallsWatched, NEW c \in Calls, Running(c), NEW f \in FrameType,
         NEW g \in FrameType, SeesTimed(f), SeesTimed(g),
         call' = [call EXCEPT ![c] = [call[c] EXCEPT !.frames = <<g, f>> \o Tail(call[c].frames),
                                                     !.result = "none"]]
  PROVE  CallsWatched'
<1> DEFINE s == call[c].frames
           t == <<g, f>> \o Tail(s)
           k == [call[c] EXCEPT !.frames = t, !.result = "none"]
<1>1. Len(t) = Len(s) + 1 /\ t[1] = g /\ t[2] = f /\ \A i \in 3..(Len(s) + 1) : t[i] = s[i - 1]
  BY CallIs, Pushed DEF Running
<1>2. Watched(s) /\ Len(s) \in Nat
  BY CallIs DEF CallsWatched
<1>3. k.frames = t /\ call' = [call EXCEPT ![c] = k]
  <2>1. call' = [call EXCEPT ![c] = k]
    OBVIOUS
  <2> HIDE DEF t
  <2> QED
    BY <2>1, CallIs DEF CallType
<1> HIDE DEF t, k
<1>4. Watched(t)
  <2>1. ASSUME NEW i \in 1..Len(t) PROVE SeesTimed(t[i])
    <3>1. CASE i \in {1, 2}
      BY <1>1, <3>1
    <3>2. CASE i \notin {1, 2}
      <4>1. t[i] = s[i - 1] /\ i - 1 \in 1..Len(s)
        BY <1>1, <1>2, <3>2
      <4> QED
        BY <1>2, <4>1 DEF Watched
    <3> QED
      BY <3>1, <3>2
  <2> QED
    BY <2>1 DEF Watched
<1> QED
  BY <1>3, <1>4, OneWatched

LEMMA UpdateWatched ==
  ASSUME CallsTyped, CallsWatched, NEW c \in Calls, Running(c), NEW rec, NEW r, NEW o,
         UpdateAccount(c, rec, r, o)
  PROVE  CallsWatched'
<1>1. Return(c, r) \/ Return(c, o)
  BY DEF UpdateAccount, Saved, Unsaved
<1> QED
  BY <1>1, ReturnWatched

LEMMA PlaceWatched ==
  ASSUME Typed, InTime, NEW c \in Calls, Running(c), NEW place \in Places[Top(c).op],
         place # "start"
  PROVE  /\ [Top(c) EXCEPT !.at = place] \in FrameType
         /\ SeesTimed([Top(c) EXCEPT !.at = place])
         /\ Goto(c, place) => CallsWatched'
<1>1. Top(c) \in FrameType /\ SeesTimed(Top(c))
  BY TopIs, TopTimed DEF Typed
<1>2. [Top(c) EXCEPT !.at = place] \in FrameType /\ SeesTimed([Top(c) EXCEPT !.at = place])
  BY <1>1, FrameAt DEF SeesTimed, FrameType
<1> QED
  BY <1>2, MoveWatched DEF Goto, Typed, InTime, CallsWatched

LEMMA NewWatched ==
  ASSUME NEW op \in {"renew", "quota"}, NEW forced \in BOOLEAN
  PROVE  SeesTimed(Frame(op, forced))
BY DEF SeesTimed, Frame, Waits

LEMMA StepWatched ==
  ASSUME Typed, InTime, NEW c \in Calls, Step(c)
  PROVE  CallsWatched'
<1>0. CallsTyped /\ CallsWatched
  BY DEF Typed, InTime, CallsWatched
<1>1. CASE Consider(c)
  <2> DEFINE f == [Top(c) EXCEPT !.at = "sent", !.sees = token[Of(c)]]
  <2>1. Running(c) /\ Top(c) \in FrameType /\ Top(c).op = "renew" /\ Of(c) \in Accounts
    BY <1>0, <1>1, AtIs DEF Consider
  <2>2. f \in FrameType /\ SeesTimed(f)
    <3>1. token[Of(c)] \in Nat /\ "sent" \in AllPlaces
      BY <2>1, Known DEF AllPlaces, Places
    <3> QED
      BY <2>1, <3>1 DEF FrameType, SeesTimed
  <2>3. (\E r : Return(c, r)) \/ Move(c, f)
    BY <1>1 DEF Consider
  <2> HIDE DEF f
  <2> QED
    BY <1>0, <2>1, <2>2, <2>3, ReturnWatched, MoveWatched
<1>2. CASE Grant(c)
  <2> DEFINE next == issued[Of(c)] + 1
             f == [Top(c) EXCEPT !.at = "granted", !.got = next]
  <2>1. Running(c) /\ Top(c) \in FrameType /\ Top(c).op = "renew" /\ Of(c) \in Accounts
    BY <1>0, <1>2, AtIs DEF Grant
  <2>2. \/ Goto(c, "granted") \/ Return(c, "plain")
        \/ next <= MaxTokens /\ Move(c, f)
    BY <1>2 DEF Grant, Goto
  <2>3. CASE next <= MaxTokens /\ Move(c, f)
    <3>1. next \in 0..MaxTokens /\ "granted" \in AllPlaces
      BY <2>1, <2>3, Known DEF AllPlaces, Places
    <3> HIDE DEF next
    <3>2. f \in FrameType /\ SeesTimed(f)
      BY <2>1, <3>1 DEF FrameType, SeesTimed
    <3>3. Move(c, f)
      BY <2>3
    <3> HIDE DEF f
    <3> QED
      BY <1>0, <2>1, <3>2, <3>3, MoveWatched
  <2>4. "granted" \in Places[Top(c).op]
    BY <2>1 DEF Places
  <2> QED
    BY <1>0, <2>1, <2>2, <2>3, <2>4, ReturnWatched, PlaceWatched
<1>3. CASE Refuse(c) \/ BadIDToken(c) \/ QuotaReadAfterwards(c)
  <2>1. Running(c) /\ \E r : Return(c, r)
    BY <1>0, <1>3, AtIs DEF Refuse, BadIDToken, QuotaReadAfterwards
  <2> QED
    BY <1>0, <2>1, ReturnWatched
<1>4. CASE StoreTokens(c)
  <2> DEFINE g == Frame("quota", FALSE)
             f == [Top(c) EXCEPT !.at = "renewed"]
  <2>1. Running(c) /\ Top(c).op = "renew"
    BY <1>0, <1>4, AtIs DEF StoreTokens
  <2>2. (\E r : Return(c, r)) \/ Invoke(c, "renewed", g)
    BY <1>4 DEF StoreTokens, Unsaved
  <2>3. g \in FrameType /\ SeesTimed(g)
    BY FrameNew, NewWatched
  <2>4. "renewed" \in Places[Top(c).op]
    BY <2>1 DEF Places
  <2> HIDE DEF g
  <2>5. f \in FrameType /\ SeesTimed(f)
    BY <2>1, <2>4, PlaceWatched
  <2>6. CASE Invoke(c, "renewed", g)
    <3>1. call' = [call EXCEPT ![c] = [call[c] EXCEPT !.frames = <<g, f>> \o Tail(call[c].frames),
                                                      !.result = "none"]]
      BY <2>6 DEF Invoke
    <3> HIDE DEF f
    <3> QED
      BY <1>0, <2>1, <2>3, <2>5, <3>1, PushWatched
  <2> QED
    BY <1>0, <2>1, <2>2, <2>6, ReturnWatched
<1>5. CASE ReadQuota(c)
  <2> DEFINE g == EnsureFresh(c)
             f == [Top(c) EXCEPT !.at = "asked", !.sees = acc[Of(c)].cooldown]
  <2>1. /\ Running(c) /\ Top(c) \in FrameType /\ Top(c).op = "quota" /\ Of(c) \in Accounts
        /\ call[c].result = "none"
    BY <1>0, <1>5, AtIs DEF ReadQuota, At
  <2>2. Return(c, "plain") \/ call' = [call EXCEPT ![c].frames = <<g, f>> \o Tail(@)]
    BY <1>5 DEF ReadQuota
  <2>3. g \in FrameType /\ SeesTimed(g)
    <3>1. Top(c).forced \in BOOLEAN
      BY <2>1 DEF FrameType
    <3> QED
      BY <3>1, FrameNew, NewWatched DEF EnsureFresh
  <2>4. f \in FrameType /\ SeesTimed(f)
    <3>1. acc[Of(c)].cooldown \in Nat /\ acc[Of(c)].cooldown \in Waits /\ "asked" \in AllPlaces
      BY <2>1, MemoryGood
      DEF Typed, GoodMemory, StoreTypeOK, Account, InTime, Timed, AllPlaces, Places
    <3> QED
      BY <2>1, <3>1 DEF FrameType, SeesTimed
  <2> HIDE DEF f, g
  <2>5. CASE call' = [call EXCEPT ![c].frames = <<g, f>> \o Tail(@)]
    <3>1. call[c] \in CallType
      BY <1>0, CallIs
    <3>2. ASSUME NEW t
          PROVE  [call[c] EXCEPT !.frames = t] = [call[c] EXCEPT !.frames = t, !.result = "none"]
      BY <2>1, <3>1 DEF CallType
    <3>3. call' = [call EXCEPT ![c] = [call[c] EXCEPT !.frames = <<g, f>> \o Tail(call[c].frames),
                                                      !.result = "none"]]
      BY <2>5, <3>2
    <3> QED
      BY <1>0, <2>1, <2>3, <2>4, <3>3, PushWatched
  <2> QED
    BY <1>0, <2>1, <2>2, <2>5, ReturnWatched
<1>6. CASE TokenIsFresh(c) \/ TokenIsNotFresh(c) \/ FetchQuota(c) \/ TryAgain(c) \/ LearnAddress(c)
  <2>1. Running(c) /\ Top(c).op = "quota"
    BY <1>0, <1>6, AtIs DEF TokenIsFresh, TokenIsNotFresh, FetchQuota, TryAgain, LearnAddress
  <2>2. {"fetch", "email", "again", "learned"} \subseteq Places[Top(c).op]
    BY <2>1 DEF Places
  <2>3. \/ \E place \in {"fetch", "email", "again", "learned"} : Goto(c, place)
        \/ \E r : Return(c, r)
        \/ \E rec, r, o : UpdateAccount(c, rec, r, o)
    BY <1>6 DEF TokenIsFresh, TokenIsNotFresh, FetchQuota, TryAgain, LearnAddress, StoreQuota
  <2> QED
    BY <1>0, <2>1, <2>2, <2>3, ReturnWatched, UpdateWatched, PlaceWatched
<1>7. CASE TokenIsRejected(c)
  <2> DEFINE g == Frame("renew", TRUE)
  <2>1. g \in FrameType /\ SeesTimed(g)
    BY FrameNew, NewWatched
  <2>2. PICK place \in {"renewing", "emailing"} :
          Running(c) /\ Top(c).op = "quota" /\ Invoke(c, place, g)
    BY <1>0, <1>7, AtIs DEF TokenIsRejected
  <2> HIDE DEF g
  <2>3. place \in Places[Top(c).op] /\ place # "start"
    BY <2>2 DEF Places
  <2>4. /\ [Top(c) EXCEPT !.at = place] \in FrameType
        /\ SeesTimed([Top(c) EXCEPT !.at = place])
    BY <2>2, <2>3, PlaceWatched
  <2> QED
    BY <1>0, <2>1, <2>2, <2>4, PushWatched DEF Invoke
<1> QED
  BY <1>1, <1>2, <1>3, <1>4, <1>5, <1>6, <1>7 DEF Step

LEMMA InitInTime == Init => InTime
<1> SUFFICES ASSUME Init PROVE InTime
  OBVIOUS
<1>1. acc = [a \in Accounts |-> FreshAccount] /\ call = [c \in Calls |-> Idle]
  BY DEF Init, StoreInit
<1>2. file.content.acc = acc
  BY DEF Init, StorageInit, Memory
<1>3. Timed(FreshAccount)
  BY DEF Timed, FreshAccount, Waits
<1>4. Watched(<<>>)
  BY DEF Watched
<1> QED
  BY <1>1, <1>2, <1>3, <1>4 DEF InTime, Idle

LEMMA NextInTime ==
  ASSUME {AuthCooldown, LongCooldown} \subseteq QuotaResets, Typed, InTime, [Next]_vars
  PROVE  InTime' /\ [mode = "up" => \E a \in Accounts : Disturb(a)]_store
<1>1. CallsTyped /\ CallsWatched /\ StoreTypeOK /\ \A a \in Accounts : Timed(acc[a])
  BY MemoryGood DEF Typed, InTime, CallsWatched, GoodMemory
<1>2. \A a \in Accounts : Timed(file.content.acc[a])
  BY DEF InTime
<1>3. ASSUME CallsWatched', \A a \in Accounts : Timed(acc'[a]),
             file'.content.acc = acc' \/ file'.content = file.content
      PROVE  InTime'
  BY <1>2, <1>3 DEF InTime, CallsWatched, Watched, SeesTimed, Timed
<1>4. ASSUME UNCHANGED call PROVE CallsWatched'
  BY <1>1, <1>4 DEF CallsWatched, Watched, SeesTimed
<1>5. ASSUME Filed PROVE file'.content.acc = acc' \/ file'.content = file.content
  <2>1. CASE Save(Memory')
    BY <2>1 DEF Save, Memory
  <2>2. CASE SaveFails
    BY <2>2, TornKeeps DEF SaveFails, Typed, FilesTyped
  <2>3. CASE UNCHANGED storage
    BY <2>3 DEF storage
  <2> QED
    BY <1>5, <2>1, <2>2, <2>3 DEF Filed
<1>6. ASSUME UNCHANGED store \/ \E a \in Accounts : Disturb(a)
      PROVE  /\ \A a \in Accounts : Timed(acc'[a])
             /\ [mode = "up" => \E a \in Accounts : Disturb(a)]_store
  BY <1>1, <1>6, DisturbTimed DEF store
<1>7. ASSUME NEW c \in Calls, Begin(c) PROVE UNCHANGED store /\ Filed /\ CallsWatched'
  <2>1. PICK a \in present, op \in {"renew", "quota"}, forced \in BOOLEAN :
          call' = [call EXCEPT ![c] = [for |-> a, frames |-> <<Frame(op, forced)>>,
                                       result |-> "none"]]
    BY <1>7 DEF Begin
  <2>2. Watched(<<Frame(op, forced)>>)
    BY NewWatched DEF Watched
  <2> DEFINE k == [for |-> a, frames |-> <<Frame(op, forced)>>, result |-> "none"]
  <2>3. Watched(k.frames) /\ call' = [call EXCEPT ![c] = k]
    BY <2>1, <2>2
  <2> HIDE DEF k
  <2> QED
    BY <1>1, <1>7, <2>3, OneWatched DEF Begin, Filed
<1>8. ASSUME NEW c \in Calls, Step(c) PROVE Filed
  BY <1>8
  DEF Step, Filed, Consider, Grant, Refuse, BadIDToken, StoreTokens, Unsaved, Saved, QuotaReadAfterwards,
      ReadQuota, TokenIsFresh, TokenIsNotFresh, FetchQuota, StoreQuota, TokenIsRejected,
      TryAgain, LearnAddress, UpdateAccount
<1>9. CASE \E c \in Calls : Begin(c) \/ Step(c)
  <2>1. ASSUME NEW c \in Calls, Begin(c)
        PROVE  InTime' /\ [mode = "up" => \E a \in Accounts : Disturb(a)]_store
    BY <1>3, <1>5, <1>6, <1>7, <2>1
  <2>2. ASSUME NEW c \in Calls, Step(c)
        PROVE  InTime' /\ [mode = "up" => \E a \in Accounts : Disturb(a)]_store
    BY <1>3, <1>5, <1>6, <1>8, <2>2, StepDisturbs, StepWatched
  <2> QED
    BY <1>9, <2>1, <2>2
<1>10. CASE \E a \in Accounts : Expires(a) \/ Login(a) \/ Owner(a)
  <2>1. PICK a \in Accounts : Expires(a) \/ Login(a) \/ Owner(a)
    BY <1>10
  <2>2. Filed /\ UNCHANGED call
    BY <2>1 DEF Expires, Login, Owner, Filed, calls
  <2> QED
    BY <1>3, <1>4, <1>5, <1>6, <2>1, <2>2, OthersDisturb
<1>11. CASE Crash
  <2>1. UNCHANGED store /\ file'.content = file.content
    BY <1>11, TornKeeps DEF Crash, StorageCrash, Typed, FilesTyped
  <2>2. CallsWatched'
    BY <1>11 DEF Crash, CallsWatched, Watched, Idle
  <2> QED
    BY <1>3, <1>6, <2>1, <2>2
<1>12. CASE Restart
  <2>1. mode # "up" /\ UNCHANGED call
    BY <1>12 DEF Restart, Load, CopyFile, RewriteFile, Remember, calls
  <2>2. \A a \in Accounts : Timed(NoAccounts.acc[a])
    BY DEF NoAccounts, Timed, FreshAccount, Waits
  <2>3. CASE CopyFile /\ UNCHANGED store
    BY <1>1, <1>3, <1>4, <2>1, <2>3 DEF CopyFile, store
  <2>4. CASE Load /\ Remember(Loaded(NoAccounts))
    <3>1. acc' = file.content.acc \/ acc' = NoAccounts.acc
      BY <2>4 DEF Remember, Loaded
    <3>2. file' = file
      BY <2>4 DEF Load
    <3> QED
      BY <1>2, <1>3, <1>4, <2>1, <2>2, <3>1, <3>2
  <2>5. CASE RewriteFile(NoAccounts) /\ Remember(NoAccounts)
    <3>1. acc' = NoAccounts.acc
      BY <2>5 DEF Remember
    <3>2. file'.content = file.content \/ file'.content = NoAccounts
      BY <2>5, TornKeeps DEF RewriteFile, Typed, FilesTyped
    <3> QED
      BY <1>3, <1>4, <2>1, <2>2, <3>1, <3>2
  <2> QED
    BY <1>12, <2>3, <2>4, <2>5 DEF Restart
<1>13. CASE UNCHANGED vars
  <2>1. UNCHANGED <<store, storage, call>>
    BY <1>13 DEF vars, calls
  <2> QED
    BY <1>3, <1>4, <1>5, <1>6, <2>1 DEF Filed
<1> QED
  BY <1>9, <1>10, <1>11, <1>12, <1>13 DEF Next

(* While the program runs, the refreshers change accounts only in ways the  *)
(* request paths are checked and proved against.                            *)
THEOREM RefreshersDisturb ==
  ASSUME {AuthCooldown, LongCooldown} \subseteq QuotaResets
  PROVE  Spec => RefreshersAreDisturbers
<1>1. Typed /\ InTime /\ [Next]_vars => InTime'
  BY NextInTime
<1>2. Typed /\ InTime /\ [Next]_vars => [mode = "up" => \E a \in Accounts : Disturb(a)]_store
  BY NextInTime
<1> QED
  BY <1>1, <1>2, InitInTime, AlwaysTyped, PTL DEF Spec, RefreshersAreDisturbers
=============================================================================
