-------------------------- MODULE Assistant_proofs --------------------------
(***************************************************************************)
(* What the assistant's tabs keep of their conversations, for any number   *)
(* of tabs and questions and any length of the stored copy; and that the   *)
(* six-week dashboard leaves out no week for having read only the latest   *)
(* reports, and that its totals and those of a month are exact.            *)
(***************************************************************************)
EXTENDS Assistant, FiniteSetTheorems, SequenceTheorems, WellFoundedInduction, TLAPS

Turns == [role : {"user", "assistant"}, of : 1..MaxAsked]
Conversations == {turns \in Seq(Turns) : Whole(turns)}

\* What is sent is the server's affair and never gets back into a conversation.
ChatTypeOK ==
  /\ asked \in 0..MaxAsked
  /\ history \in [Tabs -> Conversations]
  /\ DOMAIN req = 1..MaxAsked
  /\ \A n \in 1..MaxAsked :
       /\ DOMAIN req[n] = {"tab", "pc", "question", "sent", "read"}
       /\ req[n].pc # "none" => req[n].tab \in Tabs

StoredEnd == storage = <<>> \/ \E t \in Tabs : storage = LastTurns(history[t], SavedTurns)

ChatInv == ChatTypeOK /\ StoredEnd

(***************************************************************************)
(* Turns                                                                   *)
(***************************************************************************)
LEMMA NoTurns == <<>> \in Conversations
  <1>1. <<>> \in Seq(Turns) /\ Len(<<>>) = 0 /\ DOMAIN <<>> = {}
    BY EmptySeq
  <1> QED
    BY <1>1 DEF Conversations, Whole

\* An answer and its question are added as they are.
LEMMA PairAdded ==
  ASSUME NEW turns \in Conversations, NEW n \in 1..MaxAsked
  PROVE  turns \o Pair(n) \in Conversations
  <1> DEFINE more == turns \o Pair(n)
             l == Len(turns)
  <1>1. Turn("user", n) \in Turns /\ Turn("assistant", n) \in Turns
    BY DEF Turn, Turns
  <1>2. /\ Pair(n) \in Seq(Turns) /\ Len(Pair(n)) = 2
        /\ Pair(n)[1] = Turn("user", n) /\ Pair(n)[2] = Turn("assistant", n)
    BY <1>1 DEF Pair
  <1>3. turns \in Seq(Turns) /\ l \in Nat /\ l % 2 = 0 /\ DOMAIN turns = 1..l
    BY LenProperties DEF Conversations, Whole
  <1>4. \A i \in 1..l :
          IF i % 2 = 1 THEN turns[i].role = "user" /\ turns[i + 1] = Turn("assistant", turns[i].of)
          ELSE turns[i].role = "assistant"
    BY <1>3 DEF Conversations, Whole
  <1> HIDE DEF l
  <1>5. /\ more \in Seq(Turns) /\ Len(more) = l + 2
        /\ \A i \in 1..(l + 2) : more[i] = IF i <= l THEN turns[i] ELSE Pair(n)[i - l]
    <2>1. Len(turns) + 2 = l + 2 /\ Pair(n) \in Seq(Turns) /\ turns \in Seq(Turns)
      BY <1>2, <1>3 DEF l
    <2>2. /\ turns \o Pair(n) \in Seq(Turns)
          /\ Len(turns \o Pair(n)) = Len(turns) + Len(Pair(n))
          /\ \A i \in 1..(Len(turns) + Len(Pair(n))) :
               (turns \o Pair(n))[i] = IF i <= Len(turns) THEN turns[i] ELSE Pair(n)[i - Len(turns)]
      BY <2>1, ConcatProperties
    <2> QED
      BY <1>2, <2>1, <2>2 DEF l
  <1> HIDE DEF more
  <1>6. DOMAIN more = 1..(l + 2) /\ (l + 2) % 2 = 0
    BY <1>3, <1>5, LenProperties
  <1>7. ASSUME NEW i \in 1..(l + 2)
        PROVE  IF i % 2 = 1 THEN more[i].role = "user" /\ more[i + 1] = Turn("assistant", more[i].of)
               ELSE more[i].role = "assistant"
    <2>1. CASE i <= l
      <3>1. i \in 1..l /\ more[i] = turns[i]
        BY <1>3, <1>5, <2>1
      <3>2. i % 2 = 1 => i + 1 <= l /\ i + 1 \in 1..(l + 2)
        BY <1>3, <2>1
      <3>3. i % 2 = 1 => more[i + 1] = turns[i + 1]
        BY <1>5, <3>2
      <3> QED
        BY <1>4, <3>1, <3>3
    <2>2. CASE i = l + 1
      <3>1. ~(i <= l) /\ i - l = 1 /\ i % 2 = 1
        BY <1>3, <2>2
      <3>2. PICK j \in 1..(l + 2) : j = i + 1 /\ ~(j <= l) /\ j - l = 2
        BY <1>3, <2>2
      <3>3. more[i] = Turn("user", n)
        BY <1>2, <1>5, <3>1
      <3>4. more[j] = Turn("assistant", n)
        BY <1>2, <1>5, <3>2
      <3> QED
        BY <3>1, <3>2, <3>3, <3>4 DEF Turn
    <2>3. CASE i = l + 2
      <3>1. ~(i <= l) /\ i - l = 2 /\ i % 2 # 1
        BY <1>3, <2>3
      <3>2. more[i] = Turn("assistant", n)
        BY <1>2, <1>5, <3>1
      <3> QED
        BY <3>1, <3>2 DEF Turn
    <2> QED
      BY <1>3, <2>1, <2>2, <2>3
  <1>8. Whole(more)
    BY <1>5, <1>6, <1>7 DEF Whole
  <1> QED
    BY <1>5, <1>8 DEF Conversations, more

LEMMA LaterOf ==
  ASSUME NEW x \in Int
  PROVE  Max({1, x}) = IF x >= 1 THEN x ELSE 1
  <1> DEFINE m == IF x >= 1 THEN x ELSE 1
  <1>1. m \in {1, x} /\ \A y \in {1, x} : m >= y
    OBVIOUS
  <1>2. \A z \in {1, x} : (\A y \in {1, x} : z >= y) => z = m
    OBVIOUS
  <1> QED
    BY <1>1, <1>2 DEF Max

\* The end of a conversation is one, and its own end.
LEMMA LastAreWhole ==
  ASSUME NEW turns \in Conversations
  PROVE  /\ LastTurns(turns, SavedTurns) \in Conversations
         /\ LastTurns(LastTurns(turns, SavedTurns), SavedTurns) = LastTurns(turns, SavedTurns)
  <1>1. PICK l : l = Len(turns)
    OBVIOUS
  <1>2. turns \in Seq(Turns) /\ l \in Nat /\ l % 2 = 0 /\ DOMAIN turns = 1..l
    BY <1>1, LenProperties DEF Conversations, Whole
  <1>3. \A i \in 1..l :
          IF i % 2 = 1 THEN turns[i].role = "user" /\ turns[i + 1] = Turn("assistant", turns[i].of)
          ELSE turns[i].role = "assistant"
    BY <1>2 DEF Conversations, Whole
  <1>4. SavedTurns \in Nat /\ SavedTurns % 2 = 0
    BY TurnAssumption
  <1>5. ASSUME NEW s \in Seq(Turns), Len(s) <= SavedTurns
        PROVE  LastTurns(s, SavedTurns) = s
    <2>1. Len(s) \in Nat /\ Len(s) - SavedTurns + 1 \in Int
      BY <1>4, LenProperties
    <2>2. Max({1, Len(s) - SavedTurns + 1}) = 1
      BY <1>4, <1>5, <2>1, LaterOf
    <2>3. SubSeq(s, 1, Len(s)) = s
      <3>1. SubSeq(s, 1, Len(s)) \in Seq(Turns)
        BY SubSeqProperties
      <3> QED
        BY <2>1
    <2> QED
      BY <2>2, <2>3 DEF LastTurns
  <1>6. CASE l <= SavedTurns
    BY <1>1, <1>2, <1>5, <1>6
  <1>7. CASE l > SavedTurns
    <2>1. PICK k : k = l - SavedTurns
      OBVIOUS
    <2>2. k \in Nat /\ k % 2 = 0 /\ k + 1 \in Int /\ k + 1 >= 1 /\ l - SavedTurns + 1 = k + 1 /\ l - k = SavedTurns
          /\ k + 1 <= l + 1
      BY <1>2, <1>4, <1>7, <2>1
    <2>3. PICK last : last = LastTurns(turns, SavedTurns)
      OBVIOUS
    <2>4. last = SubSeq(turns, k + 1, l)
      BY <1>1, <2>2, <2>3, LaterOf DEF LastTurns
    <2>5. /\ last \in Seq(Turns) /\ Len(last) = SavedTurns
          /\ \A i \in 1..SavedTurns : last[i] = turns[k + i]
      <3>1. /\ SubSeq(turns, k + 1, l) \in Seq(Turns)
            /\ Len(SubSeq(turns, k + 1, l)) = IF k + 1 <= l THEN l - (k + 1) + 1 ELSE 0
            /\ \A i \in 1..(l - (k + 1) + 1) : SubSeq(turns, k + 1, l)[i] = turns[k + 1 + i - 1]
        BY <1>1, <1>2, <2>2, SubSeqProperties
      <3>2. l - (k + 1) + 1 = SavedTurns /\ \A i \in 1..SavedTurns : k + 1 + i - 1 = k + i
        BY <1>2, <1>4, <2>2
      <3> QED
        BY <1>2, <1>4, <2>2, <2>4, <3>1, <3>2
    <2>6. DOMAIN last = 1..SavedTurns
      BY <2>5, LenProperties
    <2>7. ASSUME NEW i \in 1..SavedTurns
          PROVE  IF i % 2 = 1 THEN last[i].role = "user" /\ last[i + 1] = Turn("assistant", last[i].of)
                 ELSE last[i].role = "assistant"
      <3>1. k + i \in 1..l /\ (k + i) % 2 = i % 2 /\ k + i + 1 = k + (i + 1)
        BY <1>2, <1>4, <2>2
      <3>2. i % 2 = 1 => i + 1 \in 1..SavedTurns
        BY <1>4
      <3> QED
        BY <1>3, <2>5, <3>1, <3>2
    <2>8. Whole(last)
      BY <1>4, <2>5, <2>6, <2>7 DEF Whole
    <2>9. LastTurns(last, SavedTurns) = last
      BY <1>4, <1>5, <2>5
    <2> QED
      BY <2>3, <2>5, <2>8, <2>9 DEF Conversations
  <1> QED
    BY <1>2, <1>4, <1>6, <1>7

(***************************************************************************)
(* Conversations                                                           *)
(***************************************************************************)
LEMMA ChatInitially == Init => ChatInv
  <1> SUFFICES ASSUME Init
               PROVE  ChatInv
    OBVIOUS
  <1>1. history \in [Tabs -> Conversations] /\ storage = <<>>
    BY NoTurns DEF Init
  <1>2. asked \in 0..MaxAsked
    BY LimitAssumption DEF Init
  <1>3. DOMAIN req = 1..MaxAsked /\ \A n \in 1..MaxAsked : req[n] = NoRequest
    BY DEF Init
  <1>4. DOMAIN NoRequest = {"tab", "pc", "question", "sent", "read"} /\ NoRequest.pc = "none"
    BY DEF NoRequest
  <1> QED
    BY <1>1, <1>2, <1>3, <1>4 DEF ChatInv, ChatTypeOK, StoredEnd

\* A question that has been asked, is being answered or is given up.
RequestsTyped ==
  /\ DOMAIN req = 1..MaxAsked
  /\ \A n \in 1..MaxAsked :
       /\ DOMAIN req[n] = {"tab", "pc", "question", "sent", "read"}
       /\ req[n].pc # "none" => req[n].tab \in Tabs

LEMMA GivenUp ==
  ASSUME ChatInv, NEW n \in 1..MaxAsked, Drop(n)
  PROVE  RequestsTyped'
  <1>1. req' = [req EXCEPT ![n] = NoRequest]
    BY DEF Drop
  <1>2. DOMAIN NoRequest = {"tab", "pc", "question", "sent", "read"} /\ NoRequest.pc = "none"
    BY DEF NoRequest
  <1> QED
    BY <1>1, <1>2 DEF ChatInv, ChatTypeOK, RequestsTyped

LEMMA ChatPreserved == ChatInv /\ [Next]_vars => ChatInv'
  <1> SUFFICES ASSUME ChatInv, [Next]_vars
               PROVE  ChatInv'
    OBVIOUS
  <1>1. ChatTypeOK /\ StoredEnd /\ RequestsTyped
    BY DEF ChatInv, ChatTypeOK, RequestsTyped
  <1>2. ASSUME RequestsTyped', asked' \in 0..MaxAsked, UNCHANGED <<history, storage>>
        PROVE  ChatInv'
    BY <1>1, <1>2 DEF ChatInv, ChatTypeOK, StoredEnd, RequestsTyped
  <1>3. ASSUME UNCHANGED <<history, storage, req, asked>>
        PROVE  ChatInv'
    BY <1>1, <1>3 DEF ChatInv, ChatTypeOK, StoredEnd
  <1>4. ASSUME NEW t \in Tabs, NEW q \in Questions, Ask(t, q)
        PROVE  ChatInv'
    <2>1. asked + 1 \in 1..MaxAsked /\ asked' = asked + 1 /\ asked' \in 0..MaxAsked
      BY <1>1, <1>4, LimitAssumption DEF Ask, ChatTypeOK
    <2> DEFINE question == [tab |-> t, pc |-> "sent", question |-> q, sent |-> history[t], read |-> {}]
    <2>2. req' = [req EXCEPT ![asked + 1] = question]
      BY <1>4, <2>1 DEF Ask
    <2>3. DOMAIN question = {"tab", "pc", "question", "sent", "read"} /\ question.tab \in Tabs
      OBVIOUS
    <2> HIDE DEF question
    <2>4. RequestsTyped'
      BY <1>1, <2>1, <2>2, <2>3 DEF RequestsTyped
    <2> QED
      BY <1>2, <1>4, <2>1, <2>4 DEF Ask
  <1>5. ASSUME NEW n \in 1..MaxAsked, Build(n)
        PROVE  ChatInv'
    <2>1. req[n].tab \in Tabs /\ asked' = asked
      BY <1>1, <1>5 DEF Build, At, RequestsTyped
    <2>2. DOMAIN req' = DOMAIN req /\ \A m \in 1..MaxAsked : DOMAIN req'[m] = DOMAIN req[m] /\ req'[m].tab = req[m].tab
                                       /\ (m # n => req'[m] = req[m])
      BY <1>1, <1>5 DEF Build, RequestsTyped
    <2>3. RequestsTyped'
      BY <1>1, <2>1, <2>2 DEF RequestsTyped
    <2> QED
      BY <1>1, <1>2, <1>5, <2>1, <2>3 DEF Build, ChatTypeOK
  <1>6. ASSUME NEW n \in 1..MaxAsked, Answer(n)
        PROVE  ChatInv'
    <2>1. req[n].tab \in Tabs /\ asked' = asked
      BY <1>1, <1>6 DEF Answer, At, RequestsTyped
    <2>2. DOMAIN req' = DOMAIN req /\ \A m \in 1..MaxAsked : DOMAIN req'[m] = DOMAIN req[m] /\ req'[m].tab = req[m].tab
                                       /\ (m # n => req'[m] = req[m])
      BY <1>1, <1>6 DEF Answer, RequestsTyped
    <2>3. RequestsTyped'
      BY <1>1, <2>1, <2>2 DEF RequestsTyped
    <2> QED
      BY <1>1, <1>2, <1>6, <2>1, <2>3 DEF Answer, ChatTypeOK
  <1>7. ASSUME NEW n \in 1..MaxAsked, WorkerTimeout(n)
        PROVE  ChatInv'
    BY <1>1, <1>2, <1>7, GivenUp DEF WorkerTimeout, ChatTypeOK
  <1>8. ASSUME NEW n \in 1..MaxAsked, Receive(n)
        PROVE  ChatInv'
    <2>1. PICK t \in Tabs : t = req[n].tab
      BY <1>1, <1>8 DEF Receive, At, RequestsTyped
    <2>2. /\ history' = [history EXCEPT ![t] = history[t] \o Pair(n)]
          /\ storage' = LastTurns(history'[t], SavedTurns)
          /\ RequestsTyped' /\ asked' = asked
      BY <1>1, <1>8, <2>1, GivenUp DEF Receive
    <2>3. history[t] \o Pair(n) \in Conversations
      BY <1>1, PairAdded DEF ChatTypeOK
    <2>4. history' \in [Tabs -> Conversations]
      BY <1>1, <2>2, <2>3 DEF ChatTypeOK
    <2> QED
      BY <1>1, <2>2, <2>4 DEF ChatInv, ChatTypeOK, StoredEnd, RequestsTyped
  <1>9. ASSUME NEW t \in Tabs, NewChat(t)
        PROVE  ChatInv'
    <2>1. history' \in [Tabs -> Conversations] /\ storage' = <<>> /\ req' = req /\ asked' = asked
      BY <1>1, <1>9, NoTurns DEF NewChat, ChatTypeOK
    <2> QED
      BY <1>1, <2>1 DEF ChatInv, ChatTypeOK, StoredEnd
  <1>10. ASSUME NEW t \in Tabs, Reload(t)
         PROVE  ChatInv'
    <2>1. /\ history' = [history EXCEPT ![t] = LastTurns(storage, SavedTurns)]
          /\ req' = [n \in DOMAIN req |-> IF req[n].tab = t THEN NoRequest ELSE req[n]]
          /\ storage' = storage /\ asked' = asked
      BY <1>10 DEF Reload
    <2>2. storage \in Conversations /\ LastTurns(storage, SavedTurns) \in Conversations
      <3>1. CASE storage = <<>>
        BY <3>1, NoTurns, LastAreWhole
      <3>2. CASE storage # <<>>
        <4>1. PICK u \in Tabs : storage = LastTurns(history[u], SavedTurns)
          BY <1>1, <3>2 DEF StoredEnd
        <4>2. storage \in Conversations
          BY <1>1, <4>1, LastAreWhole DEF ChatTypeOK
        <4> QED
          BY <4>2, LastAreWhole
      <3> QED
        BY <3>1, <3>2
    <2>3. history' \in [Tabs -> Conversations]
      BY <1>1, <2>1, <2>2 DEF ChatTypeOK
    <2>4. StoredEnd'
      <3>1. CASE storage = <<>>
        BY <2>1, <3>1 DEF StoredEnd
      <3>2. CASE storage # <<>>
        <4>1. PICK u \in Tabs : storage = LastTurns(history[u], SavedTurns)
          BY <1>1, <3>2 DEF StoredEnd
        <4>2. LastTurns(storage, SavedTurns) = storage
          BY <1>1, <4>1, LastAreWhole DEF ChatTypeOK
        <4>3. storage = LastTurns(history'[u], SavedTurns)
          BY <1>1, <2>1, <4>1, <4>2 DEF ChatTypeOK
        <4> QED
          BY <2>1, <4>3 DEF StoredEnd
      <3> QED
        BY <3>1, <3>2
    <2>5. RequestsTyped'
      <3>1. DOMAIN NoRequest = {"tab", "pc", "question", "sent", "read"} /\ NoRequest.pc = "none"
        BY DEF NoRequest
      <3> QED
        BY <1>1, <2>1, <3>1 DEF RequestsTyped
    <2> QED
      BY <1>1, <2>1, <2>3, <2>4, <2>5 DEF ChatInv, ChatTypeOK, RequestsTyped
  <1>11. ASSUME NEW r \in Library, Upload(r)
         PROVE  ChatInv'
    BY <1>3, <1>11 DEF Upload
  <1>12. ASSUME SaveAISettings
         PROVE  ChatInv'
    BY <1>3, <1>12 DEF SaveAISettings
  <1>13. ASSUME UNCHANGED vars
         PROVE  ChatInv'
    BY <1>3, <1>13 DEF vars
  <1> QED
    BY <1>4, <1>5, <1>6, <1>7, <1>8, <1>9, <1>10, <1>11, <1>12, <1>13 DEF Next, Serve

\* However many tabs ask at once, begin anew or are loaded again, and however much
\* of a conversation is stored: every question kept has its answer, and what is
\* stored is the end of a tab's conversation.
THEOREM ChatsStayWhole == Spec => []StoredChat
  <1>1. ChatInv => StoredChat
    BY DEF ChatInv, ChatTypeOK, StoredEnd, Conversations, StoredChat
  <1> QED
    BY <1>1, ChatInitially, ChatPreserved, PTL DEF Spec

(***************************************************************************)
(* Sums                                                                    *)
(***************************************************************************)
Sum(f, S) == SumFunctionOnSet(f, S)

FirstOf(T) == CHOOSE x \in T : TRUE
IsSum(sum, f, S) ==
  sum = [T \in SUBSET S |-> IF T = {} THEN 0 ELSE LET x == FirstOf(T) IN f[x] + sum[T \ {x}]]

LEMMA SumIs ==
  ASSUME NEW f, NEW S
  PROVE  Sum(f, S) = (CHOOSE sum : IsSum(sum, f, S))[S]
  BY DEF Sum, SumFunctionOnSet, FoldFunctionOnSet, MapThenFoldSet, IsSum, FirstOf

\* A set of subsets of a finite set has one that no other is within.
LEMMA SmallestSet ==
  ASSUME NEW S, IsFiniteSet(S), NEW sets \in SUBSET (SUBSET S), sets # {}
  PROVE  \E T \in sets : \A U \in SUBSET T : U # T => U \notin sets
  <1>1. sets \subseteq FiniteSubsetsOf(S)
    BY FS_Subset DEF FiniteSubsetsOf
  <1>2. PICK T \in sets : \A U \in sets : ~(<<U, T>> \in StrictSubsetOrdering(S))
    BY <1>1, FS_StrictSubsetOrderingWellFounded, WFMin
  <1>3. ASSUME NEW U \in SUBSET T, U # T, U \in sets
        PROVE  FALSE
    <2>1. <<U, T>> \in StrictSubsetOrdering(S)
      BY <1>3 DEF StrictSubsetOrdering
    <2> QED
      BY <1>2, <1>3, <2>1
  <1> QED
    BY <1>3

LEMMA FirstIsIn ==
  ASSUME NEW T, T # {}
  PROVE  FirstOf(T) \in T
  BY DEF FirstOf

\* Where the sums of two sets overlap, they are the same.
LEMMA SumsAgree ==
  ASSUME NEW f, NEW S, NEW s, IsSum(s, f, S), NEW R, NEW r, IsSum(r, f, R),
         NEW T, T \subseteq S, T \subseteq R, IsFiniteSet(T)
  PROVE  s[T] = r[T]
  <1> DEFINE differ == {U \in SUBSET T : s[U] # r[U]}
  <1>1. SUFFICES ASSUME differ # {}
                 PROVE  FALSE
    OBVIOUS
  <1>2. PICK U \in differ : \A V \in SUBSET U : V # U => V \notin differ
    <2>1. differ \in SUBSET (SUBSET T)
      OBVIOUS
    <2> HIDE DEF differ
    <2> QED
      BY <1>1, <2>1, SmallestSet
  <1>3. U # {}
    BY <1>2 DEF IsSum
  <1>4. PICK x : x = FirstOf(U) /\ x \in U
    BY <1>3, FirstIsIn
  <1>5. s[U] = f[x] + s[U \ {x}] /\ r[U] = f[x] + r[U \ {x}]
    BY <1>3, <1>4 DEF IsSum
  <1>6. s[U \ {x}] = r[U \ {x}]
    BY <1>2, <1>4
  <1> QED
    BY <1>5, <1>6

LEMMA SumExists ==
  ASSUME NEW f, NEW S, IsFiniteSet(S)
  PROVE  \E s : IsSum(s, f, S)
  <1> DEFINE without == {U \in SUBSET S : ~\E s : IsSum(s, f, U)}
  <1>1. SUFFICES ASSUME without # {}
                 PROVE  FALSE
    OBVIOUS
  <1>2. PICK T \in without : \A U \in SUBSET T : U # T => U \notin without
    BY <1>1, SmallestSet
  <1> DEFINE SumOf(U) == CHOOSE s : IsSum(s, f, U)
  <1>3. \A U \in SUBSET T : IsFiniteSet(U) /\ (U # T => IsSum(SumOf(U), f, U))
    BY <1>2, FS_Subset
  <1> DEFINE val(U) == IF U = {} THEN 0 ELSE f[FirstOf(U)] + SumOf(U \ {FirstOf(U)})[U \ {FirstOf(U)}]
             sum == [U \in SUBSET T |-> val(U)]
  <1>4. ASSUME NEW U \in SUBSET T, U # T
        PROVE  SumOf(U)[U] = val(U)
    <2>1. IsSum(SumOf(U), f, U)
      BY <1>3, <1>4
    <2>2. CASE U = {}
      BY <2>1, <2>2 DEF IsSum
    <2>3. CASE U # {}
      <3>1. PICK x : x = FirstOf(U) /\ x \in U
        BY <2>3, FirstIsIn
      <3>2. SumOf(U)[U] = f[x] + SumOf(U)[U \ {x}]
        BY <2>1, <2>3, <3>1 DEF IsSum
      <3>3. IsSum(SumOf(U \ {x}), f, U \ {x}) /\ IsFiniteSet(U \ {x})
        BY <1>3, <3>1
      <3> HIDE DEF SumOf
      <3>4. SumOf(U)[U \ {x}] = SumOf(U \ {x})[U \ {x}]
        BY <2>1, <3>3, SumsAgree
      <3> QED
        BY <2>3, <3>1, <3>2, <3>4
    <2> QED
      BY <2>2, <2>3
  <1> HIDE DEF SumOf
  <1>5. ASSUME NEW U \in SUBSET T, U # {}
        PROVE  sum[U] = f[FirstOf(U)] + sum[U \ {FirstOf(U)}]
    <2>1. PICK x : x = FirstOf(U) /\ x \in U
      BY <1>5, FirstIsIn
    <2>2. U \ {x} \in SUBSET T /\ U \ {x} # T
      BY <2>1
    <2>3. sum[U \ {x}] = SumOf(U \ {x})[U \ {x}]
      BY <1>4, <2>2
    <2>4. sum[U] = f[x] + SumOf(U \ {x})[U \ {x}]
      BY <1>5, <2>1
    <2> QED
      BY <2>1, <2>3, <2>4
  <1>6. sum[{}] = 0
    OBVIOUS
  <1>7. sum = [U \in SUBSET T |-> sum[U]]
    OBVIOUS
  <1> HIDE DEF sum
  <1>8. IsSum(sum, f, T)
    BY <1>5, <1>6, <1>7 DEF IsSum
  <1> QED
    BY <1>2, <1>8

LEMMA SumUnrolled ==
  ASSUME NEW f, NEW S, IsFiniteSet(S)
  PROVE  Sum(f, S) = IF S = {} THEN 0 ELSE f[FirstOf(S)] + Sum(f, S \ {FirstOf(S)})
  <1>1. PICK s : s = CHOOSE r : IsSum(r, f, S)
    OBVIOUS
  <1>2. IsSum(s, f, S) /\ Sum(f, S) = s[S]
    BY <1>1, SumExists, SumIs
  <1>3. CASE S = {}
    BY <1>2, <1>3 DEF IsSum
  <1>4. CASE S # {}
    <2>1. PICK x, R : x = FirstOf(S) /\ R = S \ {x} /\ x \in S
      BY <1>4, FirstIsIn
    <2>2. s[S] = f[x] + s[R]
      BY <1>2, <1>4, <2>1 DEF IsSum
    <2>3. PICK r : r = CHOOSE t : IsSum(t, f, R)
      OBVIOUS
    <2>4. IsFiniteSet(R)
      BY <2>1, FS_Subset
    <2>5. IsSum(r, f, R) /\ Sum(f, R) = r[R]
      BY <2>3, <2>4, SumExists, SumIs
    <2>6. s[R] = r[R]
      BY <1>2, <2>1, <2>4, <2>5, SumsAgree
    <2> QED
      BY <1>2, <1>4, <2>1, <2>2, <2>5, <2>6
  <1> QED
    BY <1>3, <1>4

LEMMA SumEmpty ==
  ASSUME NEW f
  PROVE  Sum(f, {}) = 0
  BY SumUnrolled, FS_EmptySet

\* What is said of sums is proved of all subsets of a set together: a smallest
\* one of which it is not true would have an element to take out.
LEMMA SumsAreInt ==
  ASSUME NEW f, NEW S, IsFiniteSet(S), \A x \in S : f[x] \in Int
  PROVE  Sum(f, S) \in Int
  <1> DEFINE bad == {U \in SUBSET S : Sum(f, U) \notin Int}
  <1>1. SUFFICES ASSUME bad # {}
                 PROVE  FALSE
    OBVIOUS
  <1>2. PICK U \in bad : \A V \in SUBSET U : V # U => V \notin bad
    <2>1. bad \in SUBSET (SUBSET S)
      OBVIOUS
    <2> HIDE DEF bad
    <2> QED
      BY <1>1, <2>1, SmallestSet
  <1>3. IsFiniteSet(U) /\ U # {}
    <2>1. Sum(f, {}) \in Int
      BY SumEmpty
    <2>2. U \subseteq S /\ Sum(f, U) \notin Int
      BY <1>2
    <2> QED
      BY <2>1, <2>2, FS_Subset
  <1>4. PICK x : x = FirstOf(U) /\ x \in U
    BY <1>3, FirstIsIn
  <1>5. Sum(f, U) = f[x] + Sum(f, U \ {x})
    BY <1>3, <1>4, SumUnrolled
  <1>6. Sum(f, U \ {x}) \in Int /\ f[x] \in Int
    BY <1>2, <1>4
  <1> QED
    BY <1>2, <1>5, <1>6

LEMMA SumSame ==
  ASSUME NEW f, NEW g, NEW S, IsFiniteSet(S), \A x \in S : f[x] = g[x]
  PROVE  Sum(f, S) = Sum(g, S)
  <1> DEFINE bad == {U \in SUBSET S : Sum(f, U) # Sum(g, U)}
  <1>1. SUFFICES ASSUME bad # {}
                 PROVE  FALSE
    OBVIOUS
  <1>2. PICK U \in bad : \A V \in SUBSET U : V # U => V \notin bad
    <2>1. bad \in SUBSET (SUBSET S)
      OBVIOUS
    <2> HIDE DEF bad
    <2> QED
      BY <1>1, <2>1, SmallestSet
  <1>3. IsFiniteSet(U) /\ U # {}
    <2>1. Sum(f, {}) = Sum(g, {})
      BY SumEmpty
    <2> QED
      BY <1>2, <2>1, FS_Subset
  <1>4. PICK x : x = FirstOf(U) /\ x \in U
    BY <1>3, FirstIsIn
  <1>5. Sum(f, U) = f[x] + Sum(f, U \ {x}) /\ Sum(g, U) = g[x] + Sum(g, U \ {x})
    BY <1>3, <1>4, SumUnrolled
  <1>6. Sum(f, U \ {x}) = Sum(g, U \ {x}) /\ f[x] = g[x]
    BY <1>2, <1>4
  <1> QED
    BY <1>2, <1>5, <1>6

\* Any element may be taken out first.
LEMMA SumWithout ==
  ASSUME NEW f, NEW S, IsFiniteSet(S), \A x \in S : f[x] \in Int, NEW y \in S
  PROVE  Sum(f, S) = f[y] + Sum(f, S \ {y})
  <1> DEFINE bad == {U \in SUBSET S : \E z \in U : Sum(f, U) # f[z] + Sum(f, U \ {z})}
  <1>1. SUFFICES ASSUME bad # {}
                 PROVE  FALSE
    OBVIOUS
  <1>2. PICK U \in bad : \A V \in SUBSET U : V # U => V \notin bad
    <2>1. bad \in SUBSET (SUBSET S)
      OBVIOUS
    <2> HIDE DEF bad
    <2> QED
      BY <1>1, <2>1, SmallestSet
  <1>3. PICK z \in U : Sum(f, U) # f[z] + Sum(f, U \ {z})
    BY <1>2
  <1>4. IsFiniteSet(U) /\ U \subseteq S
    BY <1>2, FS_Subset
  <1>5. PICK x : x = FirstOf(U) /\ x \in U
    BY <1>3, FirstIsIn
  <1>6. Sum(f, U) = f[x] + Sum(f, U \ {x})
    BY <1>4, <1>5, SumUnrolled
  <1>7. x # z
    BY <1>3, <1>6
  <1>8. \A v, w \in U : v # w => Sum(f, U \ {v}) = f[w] + Sum(f, (U \ {v}) \ {w})
    BY <1>2
  <1> DEFINE rest == U \ {x, z}
  <1>9. (U \ {x}) \ {z} = rest /\ (U \ {z}) \ {x} = rest
    OBVIOUS
  <1>10. Sum(f, U \ {x}) = f[z] + Sum(f, rest) /\ Sum(f, U \ {z}) = f[x] + Sum(f, rest)
    BY <1>5, <1>7, <1>8, <1>9
  <1>11. f[x] \in Int /\ f[z] \in Int /\ Sum(f, rest) \in Int
    <2>1. IsFiniteSet(rest) /\ \A w \in rest : f[w] \in Int
      BY <1>4, FS_Subset
    <2> HIDE DEF rest
    <2> QED
      BY <1>4, <1>5, <2>1, SumsAreInt
  <1> HIDE DEF rest
  <1> QED
    BY <1>3, <1>6, <1>10, <1>11

LEMMA SumUnion ==
  ASSUME NEW f, NEW S, NEW T, IsFiniteSet(S), IsFiniteSet(T), S \intersect T = {},
         \A x \in S \union T : f[x] \in Int
  PROVE  Sum(f, S \union T) = Sum(f, S) + Sum(f, T)
  <1> DEFINE bad == {U \in SUBSET S : Sum(f, U \union T) # Sum(f, U) + Sum(f, T)}
  <1>1. SUFFICES ASSUME bad # {}
                 PROVE  FALSE
    OBVIOUS
  <1>2. PICK U \in bad : \A V \in SUBSET U : V # U => V \notin bad
    <2>1. bad \in SUBSET (SUBSET S)
      OBVIOUS
    <2> HIDE DEF bad
    <2> QED
      BY <1>1, <2>1, SmallestSet
  <1>3. IsFiniteSet(U) /\ U \subseteq S /\ Sum(f, U \union T) # Sum(f, U) + Sum(f, T)
    BY <1>2, FS_Subset
  <1>4. \A V \in SUBSET S : Sum(f, V) \in Int /\ IsFiniteSet(V)
    BY SumsAreInt, FS_Subset
  <1>5. Sum(f, T) \in Int
    BY SumsAreInt
  <1>6. U # {}
    BY <1>3, <1>5, SumEmpty
  <1>7. PICK x : x \in U
    BY <1>6
  <1>8. Sum(f, U) = f[x] + Sum(f, U \ {x})
    BY <1>3, <1>7, SumWithout
  <1>9. Sum(f, U \union T) = f[x] + Sum(f, (U \ {x}) \union T)
    <2>1. IsFiniteSet(U \union T) /\ (U \union T) \ {x} = (U \ {x}) \union T
      BY <1>3, <1>7, FS_Union
    <2>2. Sum(f, U \union T) = f[x] + Sum(f, (U \union T) \ {x})
      BY <1>3, <1>7, <2>1, SumWithout
    <2> QED
      BY <2>1, <2>2
  <1>10. Sum(f, (U \ {x}) \union T) = Sum(f, U \ {x}) + Sum(f, T)
    BY <1>2, <1>3, <1>7
  <1>11. f[x] \in Int /\ Sum(f, U \ {x}) \in Int
    BY <1>3, <1>4, <1>7
  <1> QED
    BY <1>3, <1>5, <1>8, <1>9, <1>10, <1>11

\* The sum over sets that do not overlap is the sum of their sums.
IsSplit(f, S, part, whole, sums) ==
  /\ IsFiniteSet(S)
  /\ \A i \in S : IsFiniteSet(part[i]) /\ \A x \in part[i] : f[x] \in Int
  /\ \A i, j \in S : i # j => part[i] \intersect part[j] = {}
  /\ whole = UNION {part[i] : i \in S}
  /\ sums = [i \in S |-> Sum(f, part[i])]

LEMMA SumOfParts ==
  ASSUME NEW f, NEW S, NEW part, NEW whole, NEW sums, IsSplit(f, S, part, whole, sums)
  PROVE  IsFiniteSet(whole) /\ Sum(f, whole) = Sum(sums, S)
  <1> USE DEF IsSplit
  <1> DEFINE All(U) == UNION {part[i] : i \in U}
             bad == {U \in SUBSET S : ~(IsFiniteSet(All(U)) /\ Sum(f, All(U)) = Sum(sums, U))}
  <1>1. SUFFICES ASSUME bad # {}
                 PROVE  FALSE
    OBVIOUS
  <1>2. PICK U \in bad : \A V \in SUBSET U : V # U => V \notin bad
    <2>1. bad \in SUBSET (SUBSET S)
      OBVIOUS
    <2> HIDE DEF bad
    <2> QED
      BY <1>1, <2>1, SmallestSet
  <1>3. IsFiniteSet(U) /\ U \subseteq S /\ ~(IsFiniteSet(All(U)) /\ Sum(f, All(U)) = Sum(sums, U))
    BY <1>2, FS_Subset
  <1>4. U # {}
    <2>1. All({}) = {} /\ IsFiniteSet({})
      BY FS_EmptySet
    <2>2. Sum(f, {}) = 0 /\ Sum(sums, {}) = 0
      BY SumEmpty
    <2> HIDE DEF All
    <2> QED
      BY <1>3, <2>1, <2>2
  <1>5. PICK i : i \in U
    BY <1>4
  <1> DEFINE rest == U \ {i}
  <1>6. IsFiniteSet(All(rest)) /\ Sum(f, All(rest)) = Sum(sums, rest)
    BY <1>2, <1>3, <1>5
  <1>7. All(U) = part[i] \union All(rest) /\ part[i] \intersect All(rest) = {}
    BY <1>3, <1>5
  <1>8. \A x \in All(U) : f[x] \in Int
    BY <1>3
  <1>9. PICK A, B : A = part[i] /\ B = All(rest)
    OBVIOUS
  <1>10. /\ IsFiniteSet(A \union B)
         /\ Sum(f, A \union B) = Sum(f, A) + Sum(f, B)
    <2>1. IsFiniteSet(A) /\ IsFiniteSet(B) /\ A \intersect B = {} /\ \A x \in A \union B : f[x] \in Int
      <3> HIDE DEF All
      <3> QED
        BY <1>3, <1>5, <1>6, <1>7, <1>8, <1>9
    <2>2. IsFiniteSet(A \union B)
      BY <2>1, FS_Union
    <2> QED
      BY <2>1, <2>2, SumUnion
  <1>11. \A j \in U : sums[j] = Sum(f, part[j]) /\ sums[j] \in Int
    BY <1>3, SumsAreInt
  <1>12. Sum(sums, U) = sums[i] + Sum(sums, U \ {i})
    <2>1. IsFiniteSet(U) /\ \A j \in U : sums[j] \in Int
      BY <1>3, <1>11
    <2> QED
      BY <1>5, <2>1, SumWithout
  <1> HIDE DEF All
  <1> QED
    BY <1>3, <1>5, <1>6, <1>7, <1>9, <1>10, <1>11, <1>12

\* Summing over other names of the same things.
LEMMA SumRenamed ==
  ASSUME NEW f, NEW S, IsFiniteSet(S), NEW name, \A x, y \in S : name[x] = name[y] => x = y,
         \A x \in S : f[name[x]] \in Int
  PROVE  Sum(f, {name[x] : x \in S}) = Sum([x \in S |-> f[name[x]]], S)
  <1> DEFINE part == [x \in S |-> {name[x]}]
  <1>1. ASSUME NEW x \in S
        PROVE  IsFiniteSet(part[x]) /\ (\A y \in part[x] : f[y] \in Int) /\ Sum(f, part[x]) = f[name[x]]
    <2>1. IsFiniteSet({name[x]}) /\ {name[x]} \ {name[x]} = {}
      BY FS_Singleton
    <2>2. Sum(f, {name[x]}) = f[name[x]] + Sum(f, {})
      BY <2>1, SumWithout
    <2> QED
      BY <2>1, <2>2, SumEmpty
  <1>2. \A x, y \in S : x # y => part[x] \intersect part[y] = {}
    OBVIOUS
  <1>3. UNION {part[x] : x \in S} = {name[x] : x \in S}
    OBVIOUS
  <1>4. [x \in S |-> Sum(f, part[x])] = [x \in S |-> f[name[x]]]
    <2> HIDE DEF part
    <2> QED
      BY <1>1
  <1> HIDE DEF part
  <1>5. PICK whole, sums : whole = UNION {part[x] : x \in S} /\ sums = [x \in S |-> Sum(f, part[x])]
    OBVIOUS
  <1>6. Sum(f, whole) = Sum(sums, S)
    <2>1. \A x \in S : IsFiniteSet(part[x]) /\ \A y \in part[x] : f[y] \in Int
      BY <1>1
    <2>2. IsSplit(f, S, part, whole, sums)
      BY <1>2, <1>5, <2>1 DEF IsSplit
    <2> QED
      BY <2>2, SumOfParts
  <1> QED
    BY <1>3, <1>4, <1>5, <1>6

(***************************************************************************)
(* The six-week dashboard                                                  *)
(***************************************************************************)
LEMMA GreatestNumber ==
  ASSUME NEW numbers \in SUBSET Int, IsFiniteSet(numbers), numbers # {}
  PROVE  Max(numbers) \in numbers /\ \A m \in numbers : m <= Max(numbers)
  <1> DEFINE above(n) == {m \in numbers : m > n}
             aboves == {above(n) : n \in numbers}
  <1>1. aboves \subseteq FiniteSubsetsOf(numbers)
    BY FS_Subset DEF FiniteSubsetsOf
  <1>2. aboves # {}
    OBVIOUS
  <1>3. PICK least \in aboves : \A other \in aboves : ~(<<other, least>> \in StrictSubsetOrdering(numbers))
    BY <1>1, <1>2, FS_StrictSubsetOrderingWellFounded, WFMin
  <1>4. PICK n \in numbers : least = above(n)
    OBVIOUS
  <1>5. ASSUME NEW m \in numbers, m > n
        PROVE  FALSE
    <2>1. m \in above(n) /\ m \notin above(m)
      BY <1>5
    <2>2. above(m) \subseteq above(n)
      <3>1. ASSUME NEW k \in above(m)
            PROVE  k \in above(n)
        <4>1. k \in Int /\ m \in Int /\ n \in Int /\ k \in numbers /\ k > m /\ m > n
          BY <1>5
        <4>2. k > n
          BY <4>1
        <4> QED
          BY <4>1, <4>2
      <3> QED
        BY <3>1
    <2>3. above(m) \in aboves /\ above(m) \subseteq numbers /\ above(n) \subseteq numbers
      OBVIOUS
    <2>4. <<above(m), above(n)>> \in StrictSubsetOrdering(numbers)
      BY <2>1, <2>2, <2>3 DEF StrictSubsetOrdering
    <2> QED
      BY <1>3, <1>4, <2>3, <2>4
  <1>6. \A m \in numbers : n >= m
    BY <1>5
  <1> HIDE DEF above, aboves
  <1>7. \E x \in numbers : \A m \in numbers : x >= m
    BY <1>6
  <1>8. Max(numbers) \in numbers /\ \A m \in numbers : Max(numbers) >= m
    BY <1>7 DEF Max
  <1> QED
    BY <1>8

\* Of the reports of a kind, only those of later weeks are newer.
LEMMA NewerSales ==
  ASSUME NEW r, NEW s, Kind(r) = "weekly_sales", Kind(s) = "weekly_sales"
  PROVE  Newer(s, r) <=> Week(s) > Week(r)
  <1>1. 6 \in DOMAIN Kinds /\ Kinds[6] = "weekly_sales" /\ DOMAIN Kinds = 1..6
    BY DEF Kinds
  <1>2. Rank("weekly_sales") \in 1..6
    BY <1>1 DEF Rank
  <1>3. ~(Rank(Kind(s)) > Rank(Kind(r)))
    BY <1>2
  <1> QED
    BY <1>3 DEF Newer

\* The dashboard ends with the week of a report as late as any sales are.
LEMMA LastWeek ==
  ASSUME NEW stored \in SUBSET Library, NEW r \in stored, Kind(r) = "weekly_sales"
  PROVE  /\ WeekOfDay(LatestEnd(stored, 0)) \in Int
         /\ Week(r) <= WeekOfDay(LatestEnd(stored, 0))
  <1> DEFINE sales == {s \in stored : Kind(s) = "weekly_sales"}
             weeks == {Week(s) : s \in sales}
             dated == {s \in Records(stored) : Kind(s) # "parties"}
             ends == {7 * Week(s) + 5 : s \in dated}
  <1>1. IsFiniteSet(stored) /\ \A s \in stored : Week(s) \in Int
    BY LibraryAssumption, FS_Subset DEF Week
  <1>2. IsFiniteSet(weeks) /\ weeks \subseteq Int /\ Week(r) \in weeks
    <2>1. IsFiniteSet(sales)
      BY <1>1, FS_Subset
    <2>2. [s \in sales |-> Week(s)] \in Surjection(sales, weeks)
      BY DEF Surjection
    <2>3. IsFiniteSet(weeks)
      BY <2>1, <2>2, FS_Surjection
    <2> QED
      BY <1>1, <2>3
  <1>3. PICK t \in sales : \A s \in sales : Week(s) <= Week(t)
    <2> HIDE DEF sales
    <2>1. Max(weeks) \in weeks /\ \A m \in weeks : m <= Max(weeks)
      BY <1>2, GreatestNumber
    <2> QED
      BY <2>1
  <1>4. t \in Newest("weekly_sales", stored)
    <2>1. {s \in sales : Newer(s, t)} = {}
      BY <1>1, <1>3, NewerSales
    <2>2. Cardinality({s \in sales : Newer(s, t)}) = 0
      BY <2>1, FS_EmptySet
    <2>3. 0 < ChatLimit
      BY LimitAssumption
    <2> QED
      BY <2>2, <2>3 DEF Newest, First
  <1>5. t \in dated
    <2>1. 6 \in DOMAIN Kinds /\ Kinds[6] = "weekly_sales"
      BY DEF Kinds
    <2>2. "weekly_sales" \in Range(Kinds)
      BY <2>1 DEF Range
    <2> QED
      BY <1>4, <2>2 DEF Records
  <1>6. Records(stored) \subseteq stored
    BY DEF Records, Newest, First
  <1>7. IsFiniteSet(ends) /\ ends \subseteq Int /\ ends # {} /\ 7 * Week(t) + 5 \in ends
    <2>1. IsFiniteSet(dated) /\ dated \subseteq stored
      BY <1>1, <1>6, FS_Subset
    <2>2. [s \in dated |-> 7 * Week(s) + 5] \in Surjection(dated, ends)
      BY DEF Surjection
    <2>3. IsFiniteSet(ends)
      BY <2>1, <2>2, FS_Surjection
    <2> HIDE DEF dated
    <2> QED
      BY <1>1, <1>5, <2>1, <2>3
  <1>8. Max(ends) \in ends /\ 7 * Week(t) + 5 <= Max(ends)
    BY <1>7, GreatestNumber
  <1>9. LatestEnd(stored, 0) = Max(ends)
    BY <1>7 DEF LatestEnd
  <1>10. PICK w \in Int : Max(ends) = 7 * w + 5
    BY <1>1, <1>6, <1>8
  <1> HIDE DEF ends, dated, weeks
  <1>11. WeekOfDay(7 * w + 5) = w
    BY DEF WeekOfDay
  <1>12. Week(t) \in Int /\ Week(r) \in Int /\ Week(r) <= Week(t)
    BY <1>1, <1>3
  <1>13. Week(t) <= w
    BY <1>8, <1>10, <1>12
  <1> QED
    BY <1>9, <1>10, <1>11, <1>12, <1>13

\* The weeks shown are never more than the reports read.
LEMMA ShownAreRead ==
  ASSUME NEW stored \in SUBSET Library, NEW r \in stored, Kind(r) = "weekly_sales",
         Week(r) \in Range(WeekWindow(LatestEnd(stored, 0)))
  PROVE  r \in Newest("weekly_sales", stored)
  <1>1. PICK last : last = WeekOfDay(LatestEnd(stored, 0))
    OBVIOUS
  <1> DEFINE sales == {s \in stored : Kind(s) = "weekly_sales"}
             newer == {s \in sales : Newer(s, r)}
  <1>2. last \in Int /\ \A s \in sales : Week(s) \in Int /\ Week(s) <= last /\ s = <<"weekly_sales", Week(s)>>
    BY <1>1, LastWeek, LibraryAssumption DEF Week, Kind
  <1>3. WindowSize \in Nat /\ WindowSize > 0 /\ ChatLimit \in Nat /\ WindowSize <= ChatLimit
    BY WindowAssumption, LimitAssumption
  <1>4. PICK i \in 1..WindowSize : Week(r) = last - (WindowSize - i)
    BY <1>1 DEF Range, WeekWindow
  <1>5. r \in sales
    OBVIOUS
  <1>6. [s \in newer |-> Week(s)] \in Injection(newer, (Week(r) + 1)..last)
    <2>1. \A s \in newer : Week(s) \in (Week(r) + 1)..last
      BY <1>2, <1>5, NewerSales
    <2>2. \A s, t \in newer : Week(s) = Week(t) => s = t
      BY <1>2
    <2> HIDE DEF newer
    <2> QED
      BY <2>1, <2>2 DEF Injection, IsInjective
  <1>7. /\ IsFiniteSet((Week(r) + 1)..last)
        /\ Cardinality((Week(r) + 1)..last) = IF Week(r) + 1 > last THEN 0 ELSE last - (Week(r) + 1) + 1
    <2>1. PICK first \in Int : first = Week(r) + 1
      BY <1>2, <1>5
    <2>2. /\ IsFiniteSet(first..last)
          /\ Cardinality(first..last) = IF first > last THEN 0 ELSE last - first + 1
      BY <1>2, FS_Interval
    <2> QED
      BY <2>1, <2>2
  <1>8. Cardinality(newer) <= Cardinality((Week(r) + 1)..last) /\ Cardinality(newer) \in Nat
    BY <1>6, <1>7, FS_Injection, FS_CardinalityType
  <1> HIDE DEF newer
  <1>9. Cardinality(newer) < ChatLimit
    <2>1. Cardinality((Week(r) + 1)..last) < WindowSize
      BY <1>2, <1>3, <1>4, <1>7
    <2>2. Cardinality((Week(r) + 1)..last) \in Nat
      BY <1>7, FS_CardinalityType
    <2> QED
      BY <1>3, <1>8, <2>1, <2>2
  <1> QED
    BY <1>5, <1>9 DEF newer, Newest, First

LEMMA WeeksAreShown ==
  ASSUME NEW stored \in SUBSET Library, NEW selection
  PROVE  ShowsWeeks(stored, selection)
  <1>1. PICK newest, views : newest = Newest("weekly_sales", stored) /\ views = SalesViews(newest)
    OBVIOUS
  <1>2. newest = {r \in newest : r \in stored /\ Kind(r) = "weekly_sales"}
    BY <1>1 DEF Newest, First
  <1>3. \A r \in newest : Week(r) \in Int
    BY <1>2, LibraryAssumption DEF Week
  <1>4. ASSUME NEW r \in newest
        PROVE  WeekOf(views[r], 0) = Week(r)
    <2>1. views[r].label = Unknown /\ views[r].end = 7 * Week(r) + 5
      BY <1>1 DEF SalesViews
    <2>2. PICK w \in Int : w = Week(r)
      BY <1>3
    <2>3. 7 * w + 5 # Unknown
      BY WindowAssumption
    <2>4. WeekOf(views[r], 0) = WeekOfDay(7 * w + 5)
      BY <2>1, <2>2, <2>3 DEF WeekOf
    <2>5. WeekOfDay(7 * w + 5) = w
      BY DEF WeekOfDay
    <2> QED
      BY <2>2, <2>4, <2>5
  <1>5. PICK window : window = WeekWindow(LatestEnd(stored, 0))
    OBVIOUS
  <1>6. ChatDashboard(stored, selection, 0).weeks = window
    BY <1>5 DEF ChatDashboard, Dashboard
  <1>7. ChatDashboard(stored, selection, 0).reports = Filtered(views, selection, LatestEnd(stored, 0), 0)
    BY <1>1 DEF ChatDashboard, Dashboard
  <1>8. DOMAIN views = newest
    BY <1>1 DEF SalesViews
  <1>9. Filtered(views, selection, LatestEnd(stored, 0), 0) =
          {r \in newest : Week(r) \in Range(window) /\ (selection = {} \/ Week(r) \in selection)}
    BY <1>4, <1>5, <1>8 DEF Filtered, SelectedWeeks
  <1>10. \A r \in stored : Kind(r) = "weekly_sales" /\ Week(r) \in Range(window) => r \in newest
    BY <1>1, <1>5, ShownAreRead
  <1> QED
    BY <1>2, <1>6, <1>7, <1>9, <1>10 DEF ShowsWeeks

\* What is stored, and what is read of it, was in the library.
LibraryRead ==
  /\ reports \in SUBSET Library
  /\ DOMAIN req = 1..MaxAsked
  /\ \A n \in 1..MaxAsked : "read" \in DOMAIN req[n] /\ req[n].read \in SUBSET Library

LEMMA ReadInitially == Init => LibraryRead
  BY DEF Init, LibraryRead, NoRequest

LEMMA ReadPreserved == LibraryRead /\ [Next]_vars => LibraryRead'
  <1> SUFFICES ASSUME LibraryRead, [Next]_vars
               PROVE  LibraryRead'
    OBVIOUS
  <1>1. "read" \in DOMAIN NoRequest /\ NoRequest.read = {}
    BY DEF NoRequest
  <1>2. CASE \E r \in Library : Upload(r)
    BY <1>2 DEF Upload, LibraryRead
  <1>3. CASE SaveAISettings \/ UNCHANGED vars
    BY <1>3 DEF SaveAISettings, vars, LibraryRead
  <1>4. CASE \E t \in Tabs : NewChat(t)
    BY <1>4 DEF NewChat, LibraryRead
  <1>5. ASSUME NEW t \in Tabs, NEW q \in Questions, Ask(t, q)
        PROVE  LibraryRead'
    BY <1>5 DEF Ask, LibraryRead
  <1>6. ASSUME NEW t \in Tabs, Reload(t)
        PROVE  LibraryRead'
    BY <1>1, <1>6 DEF Reload, LibraryRead
  <1>7. ASSUME NEW n \in 1..MaxAsked, Build(n)
        PROVE  LibraryRead'
    BY <1>7 DEF Build, LibraryRead
  <1>8. ASSUME NEW n \in 1..MaxAsked, Answer(n)
        PROVE  LibraryRead'
    BY <1>8 DEF Answer, LibraryRead
  <1>9. ASSUME NEW n \in 1..MaxAsked, WorkerTimeout(n)
        PROVE  LibraryRead'
    BY <1>1, <1>9 DEF WorkerTimeout, Drop, LibraryRead
  <1>10. ASSUME NEW n \in 1..MaxAsked, Receive(n)
         PROVE  LibraryRead'
    BY <1>1, <1>10 DEF Receive, Drop, LibraryRead
  <1> QED
    BY <1>2, <1>3, <1>4, <1>5, <1>6, <1>7, <1>8, <1>9, <1>10 DEF Next, Serve

\* Whatever reports are stored and whichever weeks are selected: the dashboard an
\* answer is built with counts every sales report stored for these weeks and no
\* other, though only the latest reports of a kind are read.
THEOREM DashboardShowsItsWeeks == Spec => []DashboardShowsWeeks
  <1>1. LibraryRead => DashboardShowsWeeks
    <2> SUFFICES ASSUME LibraryRead, NEW n \in 1..MaxAsked,
                        NEW selection \in SUBSET {Week(r) : r \in req[n].read}
                 PROVE  ShowsWeeks(req[n].read, selection)
      BY DEF DashboardShowsWeeks
    <2>1. req[n].read \in SUBSET Library
      BY DEF LibraryRead
    <2> QED
      BY <2>1, WeeksAreShown
  <1> QED
    BY <1>1, ReadInitially, ReadPreserved, PTL DEF Spec

(***************************************************************************)
(* Totals of the six weeks                                                 *)
(***************************************************************************)
LEMMA LeastNumber ==
  ASSUME NEW numbers \in SUBSET Int, IsFiniteSet(numbers), numbers # {}
  PROVE  Min(numbers) \in numbers
  <1> DEFINE below(n) == {m \in numbers : m < n}
             belows == {below(n) : n \in numbers}
  <1>1. PICK least \in belows : \A other \in SUBSET least : other # least => other \notin belows
    <2>1. belows \in SUBSET (SUBSET numbers) /\ belows # {}
      OBVIOUS
    <2> HIDE DEF belows
    <2> QED
      BY <2>1, SmallestSet
  <1>2. PICK n \in numbers : least = below(n)
    OBVIOUS
  <1>3. ASSUME NEW m \in numbers, m < n
        PROVE  FALSE
    <2>1. m \in below(n) /\ m \notin below(m)
      BY <1>3
    <2>2. ASSUME NEW k \in below(m)
          PROVE  k \in below(n)
      <3>1. k \in Int /\ m \in Int /\ n \in Int /\ k \in numbers /\ k < m /\ m < n
        BY <1>3
      <3>2. k < n
        BY <3>1
      <3> QED
        BY <3>1, <3>2
    <2>3. below(m) \in SUBSET least /\ below(m) # least
      BY <1>2, <2>1, <2>2
    <2>4. below(m) \in belows
      OBVIOUS
    <2> HIDE DEF below, belows
    <2> QED
      BY <1>1, <2>3, <2>4
  <1>4. \A m \in numbers : n <= m
    BY <1>3
  <1> HIDE DEF below, belows
  <1> QED
    BY <1>4 DEF Min

\* The figures of a report are numbers, whichever of its parts they are from.
LEMMA MetricsAreInt ==
  ASSUME NEW report, NEW m \in DOMAIN CollectMetrics(report),
         report.rows \in Seq(Range(report.rows)),
         \A figures \in {report.payload, report.nested} \union Range(report.rows) :
           \A x \in DOMAIN figures : figures[x] \in Int
  PROVE  CollectMetrics(report)[m] \in Int
  <1> DEFINE sources == <<report.nested, report.payload>> \o report.rows
             naming == {i \in DOMAIN sources : m \in DOMAIN sources[i]}
  <1>1. CollectMetrics(report)[m] = sources[Min(naming)][m] /\ \E source \in Range(sources) : m \in DOMAIN source
    BY DEF CollectMetrics
  <1>2. /\ sources \in Seq({report.payload, report.nested} \union Range(report.rows))
        /\ DOMAIN sources = 1..Len(sources) /\ Len(sources) \in Nat
    <2>1. <<report.nested, report.payload>> \in Seq({report.payload, report.nested} \union Range(report.rows))
      OBVIOUS
    <2>2. report.rows \in Seq({report.payload, report.nested} \union Range(report.rows))
      OBVIOUS
    <2> QED
      BY <2>1, <2>2, LenProperties, ConcatProperties
  <1>3. \A i \in DOMAIN sources : \A x \in DOMAIN sources[i] : sources[i][x] \in Int
    BY <1>2, ElementOfSeq
  <1> HIDE DEF sources
  <1>4. naming # {} /\ naming \subseteq 1..Len(sources) /\ 1..Len(sources) \subseteq Int
    BY <1>1, <1>2 DEF Range
  <1>5. IsFiniteSet(naming)
    <2>1. IsFiniteSet(1..Len(sources))
      BY <1>2, FS_Interval
    <2> HIDE DEF naming
    <2> QED
      BY <1>4, <2>1, FS_Subset
  <1>6. Min(naming) \in naming
    <2> HIDE DEF naming
    <2> QED
      BY <1>4, <1>5, LeastNumber
  <1> QED
    BY <1>1, <1>3, <1>6

\* A total over all weeks is that of the totals of each week.
LEMMA TotalOfWeeks ==
  ASSUME NEW counted, IsFiniteSet(counted), NEW views, NEW m, NEW window, NEW size \in Nat,
         \A r \in counted : m \in DOMAIN CollectMetrics(views[r]) => CollectMetrics(views[r])[m] \in Int,
         \A i, j \in 1..size : window[i] = window[j] => i = j,
         \A r \in counted : \E i \in 1..size : WeekOf(views[r], 0) = window[i]
  PROVE  Total(counted, views, m) =
           SumFunction([i \in 1..size |-> Total({r \in counted : WeekOf(views[r], 0) = window[i]}, views, m)])
  <1> DEFINE f == [r \in counted |-> CollectMetrics(views[r])[m]]
             Having(rs) == {r \in rs : m \in DOMAIN CollectMetrics(views[r])}
             ofWeek(i) == {r \in counted : WeekOf(views[r], 0) = window[i]}
             part == [i \in 1..size |-> Having(ofWeek(i))]
             sums == [i \in 1..size |-> Sum(f, part[i])]
  <1>1. ASSUME NEW rs \in SUBSET counted
        PROVE  Total(rs, views, m) = Sum(f, Having(rs))
    <2> DEFINE g == [r \in Having(rs) |-> CollectMetrics(views[r])[m]]
    <2>1. Total(rs, views, m) = Sum(g, Having(rs))
      BY DEF Total, Sum, SumFunction
    <2>2. IsFiniteSet(Having(rs)) /\ \A r \in Having(rs) : g[r] = f[r]
      BY FS_Subset
    <2>3. PICK having : having = Having(rs)
      OBVIOUS
    <2> HIDE DEF f, g, Having
    <2> QED
      BY <2>1, <2>2, <2>3, SumSame
  <1>2. \A i \in 1..size : IsFiniteSet(part[i]) /\ \A r \in part[i] : f[r] \in Int
    BY FS_Subset
  <1>3. \A i, j \in 1..size : i # j => part[i] \intersect part[j] = {}
    OBVIOUS
  <1>4. Having(counted) = UNION {part[i] : i \in 1..size}
    OBVIOUS
  <1>5. IsFiniteSet(1..size)
    BY FS_Interval
  <1>6. sums = [i \in 1..size |-> Total(ofWeek(i), views, m)]
    <2>1. \A i \in 1..size : Total(ofWeek(i), views, m) = Sum(f, part[i])
      <3>1. \A i \in 1..size : ofWeek(i) \in SUBSET counted /\ part[i] = Having(ofWeek(i))
        OBVIOUS
      <3> HIDE DEF f, Having, ofWeek, part
      <3> QED
        BY <1>1, <3>1
    <2> HIDE DEF f, ofWeek, part
    <2> QED
      BY <2>1
  <1>7. Total(counted, views, m) = Sum(f, Having(counted))
    BY <1>1
  <1>8. DOMAIN sums = 1..size
    OBVIOUS
  <1>9. sums = [i \in 1..size |-> Sum(f, part[i])]
    OBVIOUS
  <1> HIDE DEF f, Having, part, sums
  <1>10. IsSplit(f, 1..size, part, Having(counted), sums)
    BY <1>2, <1>3, <1>4, <1>5, <1>9 DEF IsSplit
  <1>11. Sum(f, Having(counted)) = Sum(sums, 1..size)
    BY <1>10, SumOfParts
  <1>12. SumFunction(sums) = Sum(sums, 1..size)
    BY <1>8 DEF SumFunction, Sum
  <1> QED
    BY <1>6, <1>7, <1>11, <1>12

LEMMA LatestEndTyped ==
  ASSUME NEW stored \in SUBSET Library
  PROVE  LatestEnd(stored, 0) \in Int
  <1> DEFINE dated == {s \in Records(stored) : Kind(s) # "parties"}
             ends == {7 * Week(s) + 5 : s \in dated}
  <1>1. dated \subseteq stored /\ IsFiniteSet(dated)
    <2>1. dated \subseteq stored
      BY DEF Records, Newest, First
    <2>2. IsFiniteSet(stored)
      BY LibraryAssumption, FS_Subset
    <2> HIDE DEF dated
    <2> QED
      BY <2>1, <2>2, FS_Subset
  <1>2. \A s \in dated : 7 * Week(s) + 5 \in Int
    BY <1>1, LibraryAssumption DEF Week
  <1>3. [s \in dated |-> 7 * Week(s) + 5] \in Surjection(dated, ends)
    BY DEF Surjection
  <1> HIDE DEF dated
  <1>4. IsFiniteSet(ends)
    BY <1>1, <1>3, FS_Surjection
  <1>5. ends # {} => Max(ends) \in Int
    BY <1>2, <1>4, GreatestNumber
  <1> QED
    BY <1>5 DEF LatestEnd, dated

\* Every figure of a dashboard is the sum of its weeks.
LEMMA DashboardSums ==
  ASSUME NEW stored \in SUBSET Library, NEW selection
  PROVE  AddsUp(stored, selection)
  <1>1. PICK newest, views, window, counted :
          /\ newest = Newest("weekly_sales", stored) /\ views = SalesViews(newest)
          /\ window = WeekWindow(LatestEnd(stored, 0))
          /\ counted = Filtered(views, selection, LatestEnd(stored, 0), 0)
    OBVIOUS
  <1>2. newest = {r \in newest : r \in stored /\ Kind(r) = "weekly_sales"} /\ DOMAIN views = newest
    BY <1>1 DEF Newest, First, SalesViews
  <1>3. counted \subseteq newest /\ IsFiniteSet(counted)
    <2>1. counted \subseteq newest
      BY <1>1, <1>2 DEF Filtered
    <2>2. counted \subseteq Library
      BY <1>2, <2>1
    <2> QED
      BY <2>1, <2>2, LibraryAssumption, FS_Subset
  <1>4. ASSUME NEW r \in counted, NEW m \in DOMAIN CollectMetrics(views[r])
        PROVE  CollectMetrics(views[r])[m] \in Int
    <2>1. r \in Library /\ r[1] = "weekly_sales" /\ r \in newest
      BY <1>2, <1>3 DEF Kind
    <2>2. /\ views[r].payload = Sales[r[2]].payload /\ views[r].nested = Sales[r[2]].nested
          /\ views[r].rows = Sales[r[2]].rows
      BY <1>1, <2>1 DEF SalesViews, Week
    <2>3. PICK given : given = Sales[r[2]]
      OBVIOUS
    <2>4. /\ given.rows \in Seq(Range(given.rows))
          /\ \A figures \in {given.payload, given.nested} \union Range(given.rows) :
               \A x \in DOMAIN figures : figures[x] \in Int
      BY <2>1, <2>3, FiguresAssumption
    <2>5. PICK view : view = views[r]
      OBVIOUS
    <2>6. /\ view.rows \in Seq(Range(view.rows))
          /\ \A figures \in {view.payload, view.nested} \union Range(view.rows) :
               \A x \in DOMAIN figures : figures[x] \in Int
          /\ m \in DOMAIN CollectMetrics(view)
      BY <1>4, <2>2, <2>3, <2>4, <2>5
    <2>7. CollectMetrics(view)[m] \in Int
      BY <2>6, MetricsAreInt
    <2> QED
      BY <2>5, <2>7
  <1>5. WindowSize \in Nat /\ \A i, j \in 1..WindowSize : window[i] = window[j] => i = j
    <2>1. PICK last \in Int : last = WeekOfDay(LatestEnd(stored, 0))
      BY LatestEndTyped DEF WeekOfDay
    <2>2. window = [i \in 1..WindowSize |-> last - (WindowSize - i)]
      BY <1>1, <2>1 DEF WeekWindow
    <2> QED
      BY <2>2, WindowAssumption
  <1>6. \A r \in counted : \E i \in 1..WindowSize : WeekOf(views[r], 0) = window[i]
    <2>1. \A r \in counted : WeekOf(views[r], 0) \in Range(window)
      BY <1>1 DEF Filtered, SelectedWeeks
    <2>2. DOMAIN window = 1..WindowSize
      BY <1>1 DEF WeekWindow
    <2> QED
      BY <2>1, <2>2 DEF Range
  <1>7. PICK d : d = ChatDashboard(stored, selection, 0)
    OBVIOUS
  <1>8. /\ DOMAIN d.trends = DOMAIN d.totals
        /\ \A m \in DOMAIN d.totals :
             /\ d.totals[m] = Total(counted, views, m)
             /\ d.trends[m] =
                  [i \in 1..WindowSize |-> Total({r \in counted : WeekOf(views[r], 0) = window[i]}, views, m)]
    BY <1>1, <1>7 DEF ChatDashboard, Dashboard
  <1>9. ASSUME NEW m \in DOMAIN d.totals
        PROVE  d.totals[m] = SumFunction(d.trends[m])
    <2>1. \A r \in counted : m \in DOMAIN CollectMetrics(views[r]) => CollectMetrics(views[r])[m] \in Int
      BY <1>4
    <2>2. Total(counted, views, m) =
            SumFunction([i \in 1..WindowSize |-> Total({r \in counted : WeekOf(views[r], 0) = window[i]}, views, m)])
      BY <1>3, <1>5, <1>6, <2>1, TotalOfWeeks
    <2> QED
      BY <1>8, <2>2
  <1> QED
    BY <1>7, <1>9 DEF AddsUp

\* A question's six-week dashboard adds up, whatever the reports hold and whichever
\* weeks are selected.
THEOREM DashboardTotalsAddUp == Spec => []DashboardAddsUp
  <1>1. LibraryRead => DashboardAddsUp
    <2> SUFFICES ASSUME LibraryRead, NEW n \in 1..MaxAsked,
                        NEW selection \in SUBSET {Week(r) : r \in req[n].read}
                 PROVE  AddsUp(req[n].read, selection)
      BY DEF DashboardAddsUp
    <2>1. req[n].read \in SUBSET Library
      BY DEF LibraryRead
    <2> QED
      BY <2>1, DashboardSums
  <1> QED
    BY <1>1, ReadInitially, ReadPreserved, PTL DEF Spec

(***************************************************************************)
(* Totals of a month                                                       *)
(***************************************************************************)
\* The rows of a month that count for an associate, by report, are those of each
\* report that do.
LEMMA MonthSums ==
  ASSUME NEW gifts \in SUBSET Library, \A r \in gifts : Kind(r) = "gift_cards", NEW key,
         NEW rows, rows = UNION {{<<r, a>> : a \in Associates[Week(r)]} : r \in gifts}
  PROVE  SumFunction([x \in {x \in rows : x[2].key = key} |-> x[2].count])
           = SumFunction([r \in gifts |-> GiftCount(r, key)])
  <1> DEFINE Named(r) == {a \in Associates[Week(r)] : a.key = key}
             named == {x \in rows : x[2].key = key}
             f == [x \in named |-> x[2].count]
             part == [r \in gifts |-> {<<r, a>> : a \in Named(r)}]
             sums == [r \in gifts |-> Sum(f, part[r])]
  <1>1. IsFiniteSet(gifts)
    BY LibraryAssumption, FS_Subset
  <1>2. ASSUME NEW r \in gifts
        PROVE  IsFiniteSet(Named(r)) /\ \A a \in Named(r) : a.count \in Int
    <2>1. r \in Library /\ r[1] = "gift_cards" /\ Week(r) = r[2]
      BY DEF Kind, Week
    <2>2. IsFiniteSet(Associates[Week(r)]) /\ \A a \in Associates[Week(r)] : a.count \in Int
      BY <2>1, FiguresAssumption
    <2> QED
      BY <2>2, FS_Subset
  <1>3. named = UNION {part[r] : r \in gifts}
    OBVIOUS
  <1>4. ASSUME NEW r \in gifts, NEW x \in part[r]
        PROVE  x \in named /\ f[x] \in Int
    <2>1. PICK a \in Named(r) : x = <<r, a>>
      OBVIOUS
    <2>2. x \in named
      BY <1>3, <1>4
    <2>3. f[x] = a.count
      BY <2>1, <2>2
    <2> HIDE DEF f, Named, named
    <2> QED
      BY <1>2, <2>1, <2>2, <2>3
  <1>5. \A r, s \in gifts : r # s => part[r] \intersect part[s] = {}
    OBVIOUS
  <1>6. ASSUME NEW r \in gifts
        PROVE  IsFiniteSet(part[r]) /\ Sum(f, part[r]) = GiftCount(r, key)
    <2> DEFINE name == [a \in Named(r) |-> <<r, a>>]
               counts == [a \in Named(r) |-> a.count]
    <2>1. part[r] = {name[a] : a \in Named(r)}
      OBVIOUS
    <2>2. name \in Surjection(Named(r), part[r])
      BY DEF Surjection
    <2>3. IsFiniteSet(part[r])
      <3> HIDE DEF name, part, Named
      <3> QED
        BY <1>2, <2>2, FS_Surjection
    <2>4. \A a \in Named(r) : f[name[a]] = a.count /\ name[a] \in part[r]
      BY <1>4
    <2>5. \A a, b \in Named(r) : name[a] = name[b] => a = b
      OBVIOUS
    <2>6. counts = [a \in Named(r) |-> f[name[a]]]
      <3> HIDE DEF f, name, Named
      <3> QED
        BY <2>4
    <2>7. GiftCount(r, key) = Sum(counts, Named(r))
      BY DEF GiftCount, SumFunction, Sum
    <2>8. IsFiniteSet(Named(r)) /\ \A a \in Named(r) : f[name[a]] \in Int
      BY <1>2, <2>4
    <2> HIDE DEF f, name, Named, counts, part
    <2>9. Sum(f, {name[a] : a \in Named(r)}) = Sum([a \in Named(r) |-> f[name[a]]], Named(r))
      BY <2>5, <2>8, SumRenamed
    <2> QED
      BY <2>1, <2>3, <2>6, <2>7, <2>9
  <1>7. IsSplit(f, gifts, part, named, sums)
    <2> HIDE DEF f, named, part
    <2> QED
      BY <1>1, <1>3, <1>4, <1>5, <1>6 DEF IsSplit
  <1>8. sums = [r \in gifts |-> GiftCount(r, key)]
    <2> HIDE DEF f, part
    <2> QED
      BY <1>6
  <1>9. SumFunction(f) = Sum(f, named) /\ SumFunction(sums) = Sum(sums, gifts)
    BY DEF SumFunction, Sum
  <1> HIDE DEF sums
  <1>10. Sum(f, named) = Sum(sums, gifts)
    BY <1>7, SumOfParts
  <1> QED
    BY <1>8, <1>9, <1>10

\* When the latest reports read cover a month, what is said of it is exact.
LEMMA MonthIsExact ==
  ASSUME NEW stored \in SUBSET Library, NEW q, AsksMonth(q.words),
         {r \in Gifts(stored) : Month[Week(r)] = Query(q, stored).month} \subseteq First(Gifts(stored), ChatLimit)
  PROVE  Exact(Query(q, stored), stored)
  <1>1. PICK gifts, month : gifts = Newest("gift_cards", stored) /\ month = RequestedMonth(q, gifts)
    OBVIOUS
  <1> DEFINE of == {r \in Gifts(stored) : Month[Week(r)] = month}
  <1>2. PICK rows : rows = MonthRows(gifts, month)
    OBVIOUS
  <1>3. /\ Query(q, stored).month = month
        /\ \A key \in DOMAIN Query(q, stored).totals :
             Query(q, stored).totals[key] = SumFunction([x \in {x \in rows : x[2].key = key} |-> x[2].count])
    BY <1>1, <1>2 DEF Query, MonthQuery, Totals
  <1>4. gifts = First(Gifts(stored), ChatLimit)
    BY <1>1 DEF Newest, Gifts
  <1>5. {g \in gifts : Month[Week(g)] = month} = of
    BY <1>3, <1>4 DEF First
  <1>6. rows = UNION {{<<r, a>> : a \in Associates[Week(r)]} : r \in of}
    BY <1>2, <1>5 DEF MonthRows
  <1>7. of \in SUBSET Library /\ \A r \in of : Kind(r) = "gift_cards"
    BY DEF Gifts
  <1>8. PICK covered : covered = of
    OBVIOUS
  <1> HIDE DEF of
  <1>9. \A key : SumFunction([x \in {x \in rows : x[2].key = key} |-> x[2].count])
                   = SumFunction([r \in of |-> GiftCount(r, key)])
    BY <1>6, <1>7, MonthSums
  <1> QED
    BY <1>3, <1>9 DEF Exact, of

\* A month's figures for an associate are exact when the month's reports are among
\* those that are read, whatever is in the reports.
THEOREM RecentMonthsAreExact == Spec => []RecentMonthExact
  <1>1. LibraryRead => RecentMonthExact
    <2> SUFFICES ASSUME LibraryRead, NEW n \in 1..MaxAsked, MonthFound(n),
                        {r \in Gifts(req[n].read) : Month[Week(r)] = Answered(n).month}
                          \subseteq First(Gifts(req[n].read), ChatLimit)
                 PROVE  Exact(Answered(n), req[n].read)
      BY DEF RecentMonthExact
    <2>1. PICK q, stored : q = req[n].question /\ stored = req[n].read
      OBVIOUS
    <2>2. Answered(n) = Query(q, stored)
      BY <2>1 DEF Answered, Context
    <2>3. stored \in SUBSET Library /\ AsksMonth(q.words)
      BY <2>1 DEF LibraryRead, MonthFound
    <2> QED
      BY <2>1, <2>2, <2>3, MonthIsExact
  <1> QED
    BY <1>1, ReadInitially, ReadPreserved, PTL DEF Spec
=============================================================================
