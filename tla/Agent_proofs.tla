----------------------------- MODULE Agent_proofs -----------------------------
(***************************************************************************)
(* Proofs about Agent, for any window, any number of rounds and any        *)
(* caller.                                                                 *)
(***************************************************************************)
EXTENDS Agent, SequenceTheorems, TLAPS

-----------------------------------------------------------------------------
(* The inductive invariant *)

\* A message that is dealt with has a conversation whose last turn is the user's and
\* leaves nothing to answer; one that has been dealt with has left nothing.
EndInv ==
    /\ pc = "idle" => calls = <<>>
    /\ pc # "idle" => /\ conv # <<>>
                      /\ conv[Len(conv)].role = "user"
                      /\ conv[Len(conv)].uses = {}

\* A search is under way for a tool use that is not handled yet.
SearchInv ==
    /\ search \in [round : 0..ToolRounds, tools : 0..MaxBlocks]
    /\ pc \in {"searching", "executing"} => blocks > 0

AgentInv ==
    /\ TypeOK
    /\ SearchInv
    /\ EndInv
    /\ ConversationsAreValid
    /\ GatesAgree
    /\ ListsAreAttributed

-----------------------------------------------------------------------------
(* Facts about the operators *)

\* The window is what is left of a conversation without its first d turns; when it
\* cuts an exchange it begins with the message of a user.
LEMMA TruncateSuffix ==
    ASSUME NEW c \in Seq(Turn), Len(c) % 2 = 1
    PROVE  \E d \in 0..(Len(c) - 1) :
              /\ Truncate(c) \in Seq(Turn)
              /\ Len(Truncate(c)) = Len(c) - d
              /\ \A i \in 1..(Len(c) - d) : Truncate(c)[i] = c[d + i]
              /\ d % 2 = 0 \/ c[d + 1].role = "user"
<1>1. CASE Len(c) <= MaxMessages
  <2>1. Truncate(c) = c
    BY <1>1 DEF Truncate
  <2>2. Len(c) \in Nat /\ 0 \in 0..(Len(c) - 1) /\ Len(c) - 0 = Len(c) /\ 0 % 2 = 0
    OBVIOUS
  <2>3. \A i \in 1..(Len(c) - 0) : c[i] = c[0 + i]
    BY <2>2
  <2>4. QED
    BY <2>1, <2>2, <2>3
<1>2. CASE Len(c) > MaxMessages
  <2> DEFINE k == Len(c) - MaxMessages
             last == SubSeq(c, k + 1, Len(c))
             short == Tail(last)
  <2>1. /\ MaxMessages \in Nat /\ MaxMessages >= 2 /\ Len(c) \in Nat
        /\ k \in 1..(Len(c) - 2) /\ k % 2 = 1 /\ k + 1 \in 1..Len(c) /\ MaxMessages = Len(c) - k
    <3>1. MaxMessages \in Nat /\ MaxMessages # 0 /\ MaxMessages % 2 = 0 /\ Len(c) \in Nat
      BY AgentAssumption
    <3>2. MaxMessages >= 2
      BY <3>1
    <3>3. (Len(c) - MaxMessages) % 2 = 1
      BY <3>1
    <3>4. QED
      BY <1>2, <3>1, <3>2, <3>3
  <2>2. /\ last \in Seq(Turn) /\ Len(last) = MaxMessages
        /\ \A i \in 1..MaxMessages : last[i] = c[k + i]
    BY <2>1, SubSeqProperties
  <2>3. CASE last[1].role = "user"
    <3>1. Truncate(c) = last
      BY <1>2, <2>1, <2>3 DEF Truncate
    <3>2. c[k + 1].role = "user"
      BY <2>1, <2>2, <2>3
    <3>3. k \in 0..(Len(c) - 1)
      BY <2>1
    <3> HIDE DEF k, last
    <3>4. QED
      BY <2>1, <2>2, <3>1, <3>2, <3>3
  <2>4. CASE last[1].role # "user"
    <3>1. Truncate(c) = short
      BY <1>2, <2>1, <2>4 DEF Truncate
    <3>2. last # <<>>
      <4>1. Len(last) # 0
        BY <2>1, <2>2
      <4> HIDE DEF k, last
      <4>2. QED
        BY <4>1
    <3>3. /\ short \in Seq(Turn) /\ Len(short) = Len(last) - 1
          /\ \A i \in 1..Len(short) : short[i] = last[i + 1]
      BY <2>2, <3>2
    <3>4. /\ k + 1 \in 0..(Len(c) - 1) /\ (k + 1) % 2 = 0
          /\ Len(short) = Len(c) - (k + 1)
      BY <2>1, <2>2, <3>3
    <3>5. ASSUME NEW i \in 1..(Len(c) - (k + 1))
          PROVE  short[i] = c[(k + 1) + i]
      <4>1. i \in 1..Len(short) /\ i + 1 \in 1..MaxMessages /\ k + (i + 1) = (k + 1) + i
        BY <2>1, <3>4
      <4>2. QED
        BY <2>2, <3>3, <4>1
    <3> HIDE DEF k, last, short
    <3>6. QED
      BY <3>1, <3>3, <3>4, <3>5
  <2>5. QED
    BY <2>3, <2>4
<1>3. QED
  BY <1>1, <1>2, AgentAssumption

\* The conversation a message begins with: its faults are those of the exchanges in
\* the window.
LEMMA AskedIsValid ==
    ASSUME answers \in Seq(BOOLEAN), answers' = answers, swapped' \in SUBSET (1..Len(answers)),
           conv' = Truncate(Append(History(swapped'), Message))
    PROVE  /\ ConversationsAreValid'
           /\ conv' \in Seq(Turn) /\ conv' # <<>>
           /\ conv'[Len(conv')] = Message
<1> DEFINE n == Len(answers)
           h == History(swapped')
           c == Append(h, Message)
<1>1. n \in Nat /\ 2 * n \in Nat /\ \A k \in 1..n : answers[k] \in BOOLEAN
  OBVIOUS
<1>2. ASSUME NEW i \in 1..(2 * n)
      PROVE  (i + 1) \div 2 \in 1..n
  BY <1>1
<1>3. h \in Seq(Turn) /\ Len(h) = 2 * n
  <2>1. ASSUME NEW i \in 1..(2 * n)
        PROVE  h[i] \in Turn
    <3> DEFINE role == IF (i % 2 = 1) # ((i + 1) \div 2 \in swapped') THEN "user" ELSE "assistant"
    <3>1. h[i] = [role |-> role, text |-> role = "user" \/ answers[(i + 1) \div 2], uses |-> {},
                  results |-> {}, exchange |-> (i + 1) \div 2]
      BY <1>1, <1>2 DEF History
    <3>2. answers[(i + 1) \div 2] \in BOOLEAN /\ (i + 1) \div 2 \in Nat
      BY <1>1, <1>2
    <3>3. role \in {"user", "assistant"} /\ (role = "user" \/ answers[(i + 1) \div 2]) \in BOOLEAN
      BY <3>2
    <3> HIDE DEF role
    <3>4. QED
      BY <3>1, <3>2, <3>3 DEF Turn
  <2>2. h = [i \in 1..(2 * n) |-> h[i]]
    BY DEF History
  <2>3. QED
    BY <1>1, <2>1, <2>2
<1>4. Message \in Turn
  BY DEF Message, Turn
<1>5. /\ c \in Seq(Turn) /\ Len(c) = 2 * n + 1 /\ c[2 * n + 1] = Message
      /\ \A i \in 1..(2 * n) : c[i] = h[i]
  BY <1>1, <1>3, <1>4
\* What the rest needs to know of the stored turns.
<1>6. ASSUME NEW i \in 1..(2 * n)
      PROVE  /\ c[i].exchange = (i + 1) \div 2
             /\ c[i].uses = {} /\ c[i].results = {}
             /\ c[i].role \in {"user", "assistant"}
             /\ c[i].role = "user" <=> ((i % 2 = 1) # ((i + 1) \div 2 \in swapped'))
             /\ c[i].text \/ (c[i].role = "assistant" /\ ~answers[(i + 1) \div 2])
  <2> DEFINE role == IF (i % 2 = 1) # ((i + 1) \div 2 \in swapped') THEN "user" ELSE "assistant"
  <2>1. h[i] = [role |-> role, text |-> role = "user" \/ answers[(i + 1) \div 2], uses |-> {},
                results |-> {}, exchange |-> (i + 1) \div 2]
    BY <1>1, <1>6 DEF History
  <2>2. c[i] = h[i]
    BY <1>5, <1>6
  <2>3. role \in {"user", "assistant"} /\ (role = "user" <=> ((i % 2 = 1) # ((i + 1) \div 2 \in swapped')))
    OBVIOUS
  <2> HIDE DEF role, h, c
  <2>4. /\ c[i].exchange = (i + 1) \div 2 /\ c[i].uses = {} /\ c[i].results = {} /\ c[i].role = role
        /\ c[i].text = (role = "user" \/ answers[(i + 1) \div 2])
    BY <2>1, <2>2
  <2>5. QED
    BY <2>3, <2>4
<1>7. PICK d \in 0..(Len(c) - 1) :
        /\ conv' \in Seq(Turn)
        /\ Len(conv') = Len(c) - d
        /\ \A i \in 1..(Len(c) - d) : conv'[i] = c[d + i]
        /\ d % 2 = 0 \/ c[d + 1].role = "user"
  <2>1. Len(c) % 2 = 1
    BY <1>1, <1>5
  <2>2. conv' = Truncate(c)
    OBVIOUS
  <2> HIDE DEF c
  <2>3. QED
    BY <1>5, <2>1, <2>2, TruncateSuffix
<1> HIDE DEF h, c
<1>8. /\ Message.exchange = 0 /\ Message.uses = {} /\ Message.results = {}
      /\ Message.role = "user" /\ Message.text
  BY DEF Message
<1>9. d \in Nat /\ Len(conv') = (2 * n + 1) - d /\ DOMAIN conv' = 1..((2 * n + 1) - d) /\ d <= 2 * n
  BY <1>1, <1>5, <1>7
<1> HIDE DEF n
\* The turns of the window, by their places in the whole.
<1>14. n \in Nat /\ d \in Nat /\ d <= 2 * n
  BY <1>1, <1>9
<1>15. ASSUME NEW i \in DOMAIN conv'
       PROVE  /\ i \in Nat /\ i >= 1 /\ d + i \in 1..(2 * n + 1) /\ conv'[i] = c[d + i]
              /\ i # 1 => i > 1 /\ d + i - 1 \in 1..(2 * n) /\ conv'[i - 1] = c[d + i - 1]
  <2>1. i \in 1..((2 * n + 1) - d) /\ Len(c) = 2 * n + 1
    BY <1>5, <1>9, <1>15
  <2>2. /\ i \in Nat /\ i >= 1 /\ d + i \in 1..(2 * n + 1)
        /\ i # 1 => i > 1 /\ d + i - 1 \in 1..(2 * n) /\ i - 1 \in 1..((2 * n + 1) - d) /\ d + (i - 1) = d + i - 1
    BY <1>14, <2>1
  <2>3. conv'[i] = c[d + i]
    BY <1>7, <2>1
  <2>4. i # 1 => conv'[i - 1] = c[d + (i - 1)]
    BY <1>7, <2>1, <2>2
  <2>5. QED
    BY <2>2, <2>3, <2>4
<1>16. ASSUME NEW j \in 1..(2 * n + 1), j # 2 * n + 1
       PROVE  j \in 1..(2 * n)
  BY <1>14, <1>16
<1>17. c[2 * n + 1] = Message
  BY <1>5
<1>10. TurnsFit'
  <2> SUFFICES ASSUME NEW i \in DOMAIN conv'
               PROVE  /\ \/ conv'[i].role # IF i = 1 THEN "assistant" ELSE conv'[i - 1].role
                         \/ conv'[i].exchange \in swapped'
                         \/ i > 1 /\ conv'[i - 1].exchange \in swapped'
                      /\ Empty(conv'[i]) =>
                           \/ conv'[i].exchange = 0 /\ i > 1
                           \/ /\ conv'[i].exchange # 0 /\ conv'[i].role = "assistant"
                              /\ ~answers[conv'[i].exchange]
                      /\ conv'[i].results = IF i = 1 THEN {} ELSE conv'[i - 1].uses
    BY DEF TurnsFit, Moved, Empty
  <2>1. /\ i \in Nat /\ i >= 1 /\ d + i \in 1..(2 * n + 1) /\ conv'[i] = c[d + i]
        /\ i # 1 => i > 1 /\ d + i - 1 \in 1..(2 * n) /\ conv'[i - 1] = c[d + i - 1]
    BY <1>15
  <2>2. c[d + i].results = {} /\ (i # 1 => c[d + i - 1].uses = {})
    <3>1. c[d + i].results = {}
      BY <1>6, <1>8, <1>16, <1>17, <2>1
    <3>2. i # 1 => c[d + i - 1].uses = {}
      BY <1>6, <2>1
    <3>3. QED
      BY <3>1, <3>2
  <2>3. Empty(conv'[i]) => /\ conv'[i].exchange # 0 /\ conv'[i].role = "assistant"
                           /\ ~answers[conv'[i].exchange]
    <3>1. CASE d + i = 2 * n + 1
      BY <1>17, <1>8, <2>1, <3>1 DEF Empty
    <3>2. CASE d + i \in 1..(2 * n)
      <4>1. /\ c[d + i].exchange = (d + i + 1) \div 2
            /\ c[d + i].text \/ (c[d + i].role = "assistant" /\ ~answers[(d + i + 1) \div 2])
        BY <1>6, <3>2
      <4>2. c[d + i].exchange # 0
        BY <1>14, <2>1, <4>1
      <4>3. QED
        BY <2>1, <4>1, <4>2 DEF Empty
    <3>3. QED
      BY <1>16, <2>1, <3>1, <3>2
  <2>4. \/ conv'[i].role # IF i = 1 THEN "assistant" ELSE conv'[i - 1].role
        \/ conv'[i].exchange \in swapped'
        \/ i > 1 /\ conv'[i - 1].exchange \in swapped'
    <3>1. CASE i = 1 /\ d + 1 \in 1..(2 * n)
      <4>1. CASE d % 2 = 0
        <5>1. (d + 1) % 2 = 1
          BY <1>9, <4>1
        <5>2. QED
          BY <1>6, <2>1, <3>1, <5>1
      <4>2. CASE d % 2 # 0
        BY <1>7, <2>1, <3>1, <4>2
      <4>3. QED
        BY <4>1, <4>2
    <3>2. CASE i = 1 /\ d + 1 = 2 * n + 1
      BY <1>17, <1>8, <2>1, <3>2
    <3>3. CASE i # 1 /\ d + i = 2 * n + 1
      <4>1. i > 1 /\ d + i - 1 = 2 * n /\ (2 * n) % 2 = 0 /\ 2 * n \in 1..(2 * n)
        BY <1>14, <2>1, <3>3
      <4>2. c[2 * n].role = "user" <=> (((2 * n) % 2 = 1) # (c[2 * n].exchange \in swapped'))
        BY <1>6, <4>1
      <4>3. c[2 * n].role # "user" \/ c[2 * n].exchange \in swapped'
        BY <4>1, <4>2
      <4>4. QED
        BY <1>17, <1>8, <2>1, <3>3, <4>1, <4>3
    <3>4. CASE i # 1 /\ d + i \in 1..(2 * n)
      <4> DEFINE j == d + i
      <4>1. /\ j \in 1..(2 * n) /\ j - 1 \in 1..(2 * n) /\ i > 1
            /\ conv'[i] = c[j] /\ conv'[i - 1] = c[j - 1]
        BY <2>1, <3>4
      <4>2. (j % 2 = 1) # ((j - 1) % 2 = 1)
        BY <4>1
      <4> HIDE DEF j
      <4>3. /\ c[j].role = "user" <=> ((j % 2 = 1) # (c[j].exchange \in swapped'))
            /\ c[j - 1].role = "user" <=> (((j - 1) % 2 = 1) # (c[j - 1].exchange \in swapped'))
        BY <1>6, <4>1
      <4>4. QED
        BY <4>1, <4>2, <4>3
    <3>5. QED
      BY <1>16, <2>1, <3>1, <3>2, <3>3, <3>4
  <2>5. QED
    BY <2>1, <2>2, <2>3, <2>4
<1>11. WindowIsWhole'
  <2> SUFFICES ASSUME NEW i \in DOMAIN conv', conv'[i].exchange # 0,
                      NEW k \in conv'[i].exchange..n,
                      ~(k = conv'[i].exchange /\ conv'[i].exchange \in swapped')
               PROVE  Kept(k)' = {"user", "assistant"}
    BY DEF WindowIsWhole, Moved, n
  <2>1. i \in Nat /\ i >= 1 /\ conv'[i] = c[d + i] /\ d + i \in 1..(2 * n + 1)
    BY <1>15
  <2>2. d + i \in 1..(2 * n) /\ conv'[i].exchange = (d + i + 1) \div 2
    <3>1. d + i # 2 * n + 1
      BY <1>17, <1>8, <2>1
    <3>2. d + i \in 1..(2 * n)
      BY <1>16, <2>1, <3>1
    <3>3. QED
      BY <1>6, <2>1, <3>2
  \* The exchange k lies in the window.
  <2>3. d < 2 * k - 1
    <3>1. k \in Int /\ k <= n /\ (d + i + 1) \div 2 <= k
      BY <1>14, <2>1, <2>2
    <3>2. CASE d % 2 = 0
      BY <1>14, <2>1, <3>1, <3>2
    <3>3. CASE d % 2 # 0
      <4>1. d + 1 \in 1..(2 * n) /\ (d + 1) % 2 # 1
        <5>1. d + i <= 2 * n
          BY <1>14, <2>2
        <5>2. d + 1 \in 1..(2 * n)
          BY <1>14, <2>1, <5>1
        <5>3. (d + 1) % 2 # 1
          BY <1>14, <3>3
        <5>4. QED
          BY <5>2, <5>3
      <4>2. c[d + 1].role = "user"
        BY <1>7, <3>3
      <4>3. c[d + 1].exchange \in swapped' /\ c[d + 1].exchange = (d + 1 + 1) \div 2
        BY <1>6, <4>1, <4>2
      <4>4. k # (d + 1 + 1) \div 2
        <5> SUFFICES ASSUME k = (d + 1 + 1) \div 2
                     PROVE  FALSE
          OBVIOUS
        <5>1. (d + 1 + 1) \div 2 <= (d + i + 1) \div 2
          BY <1>14, <2>1
        <5>2. k = conv'[i].exchange
          BY <1>14, <2>1, <2>2, <3>1, <5>1
        <5>3. QED
          BY <4>3, <5>2
      <4>5. (d + 1 + 1) \div 2 <= k
        BY <1>14, <2>1, <3>1
      <4>6. QED
        BY <1>14, <3>1, <3>3, <4>4, <4>5
    <3>4. QED
      BY <3>2, <3>3
  <2>4. /\ k \in 1..n /\ 2 * k - 1 \in 1..(2 * n) /\ 2 * k \in 1..(2 * n)
        /\ (2 * k - 1 + 1) \div 2 = k /\ (2 * k + 1) \div 2 = k
        /\ (2 * k - 1) % 2 = 1 /\ (2 * k) % 2 = 0
    <3>1. k \in Int /\ k <= n /\ 1 <= k
      BY <1>14, <2>1, <2>2
    <3>2. QED
      BY <1>14, <3>1
  <2>5. /\ c[2 * k - 1].exchange = k /\ c[2 * k].exchange = k
        /\ {c[2 * k - 1].role, c[2 * k].role} = {"user", "assistant"}
    <3>1. /\ c[2 * k - 1].exchange = k /\ c[2 * k - 1].role \in {"user", "assistant"}
          /\ c[2 * k - 1].role = "user" <=> (k \notin swapped')
      BY <1>6, <2>4
    <3>2. /\ c[2 * k].exchange = k /\ c[2 * k].role \in {"user", "assistant"}
          /\ c[2 * k].role = "user" <=> (k \in swapped')
      BY <1>6, <2>4
    <3>3. QED
      BY <3>1, <3>2
  <2>6. /\ 2 * k - 1 - d \in DOMAIN conv' /\ conv'[2 * k - 1 - d] = c[2 * k - 1]
        /\ 2 * k - d \in DOMAIN conv' /\ conv'[2 * k - d] = c[2 * k]
    <3>1. /\ 2 * k - 1 - d \in 1..((2 * n + 1) - d) /\ d + (2 * k - 1 - d) = 2 * k - 1
          /\ 2 * k - d \in 1..((2 * n + 1) - d) /\ d + (2 * k - d) = 2 * k
      BY <1>14, <2>3, <2>4
    <3>2. QED
      BY <1>5, <1>7, <1>9, <3>1
  <2>7. {c[2 * k - 1].role, c[2 * k].role} \subseteq Kept(k)'
    <3>1. Kept(k)' = {conv'[j].role : j \in {q \in DOMAIN conv' : conv'[q].exchange = k}}
      BY DEF Kept
    <3>2. QED
      BY <2>5, <2>6, <3>1
  <2>8. Kept(k)' \subseteq {"user", "assistant"}
    <3>1. ASSUME NEW j \in DOMAIN conv'
          PROVE  conv'[j].role \in {"user", "assistant"}
      <4>1. conv'[j] \in Turn
        BY <1>7
      <4>2. QED
        BY <4>1 DEF Turn
    <3>2. QED
      BY <3>1 DEF Kept
  <2>9. QED
    BY <2>5, <2>7, <2>8
<1>12. conv' # <<>> /\ conv'[Len(conv')] = Message
  BY <1>1, <1>5, <1>7, <1>9
<1>13. QED
  BY <1>7, <1>10, <1>11, <1>12 DEF ConversationsAreValid

\* Two turns are appended: the model's, and the user's that answers its uses.
LEMMA RoundIsValid ==
    ASSUME ConversationsAreValid, conv \in Seq(Turn), conv # <<>>,
           conv[Len(conv)].role = "user", conv[Len(conv)].uses = {},
           NEW text \in BOOLEAN, NEW used \in SUBSET Nat,
           UNCHANGED <<answers, swapped>>,
           conv' = conv \o <<[role |-> "assistant", text |-> text, uses |-> used, results |-> {}, exchange |-> 0],
                             [role |-> "user", text |-> FALSE, uses |-> {}, results |-> used, exchange |-> 0]>>
    PROVE  /\ ConversationsAreValid'
           /\ conv' \in Seq(Turn) /\ conv' # <<>>
           /\ conv'[Len(conv')].role = "user" /\ conv'[Len(conv')].uses = {}
<1> DEFINE a == [role |-> "assistant", text |-> text, uses |-> used, results |-> {}, exchange |-> 0]
           u == [role |-> "user", text |-> FALSE, uses |-> {}, results |-> used, exchange |-> 0]
           m == Len(conv)
<1>1. a \in Turn /\ u \in Turn /\ <<a, u>> \in Seq(Turn) /\ m \in Nat \ {0} /\ m \in DOMAIN conv
  BY DEF Turn
<1>2. /\ conv' \in Seq(Turn) /\ Len(conv') = m + 2 /\ DOMAIN conv' = 1..(m + 2) /\ DOMAIN conv = 1..m
      /\ \A i \in 1..m : conv'[i] = conv[i]
      /\ conv'[m + 1] = a /\ conv'[m + 2] = u
  BY <1>1
<1>3. /\ a.role = "assistant" /\ a.uses = used /\ a.results = {} /\ a.exchange = 0
      /\ u.role = "user" /\ u.uses = {} /\ u.results = used /\ u.exchange = 0
  OBVIOUS
<1> HIDE DEF a, u, m
<1>4. TurnsFit'
  <2> SUFFICES ASSUME NEW i \in DOMAIN conv'
               PROVE  /\ \/ conv'[i].role # IF i = 1 THEN "assistant" ELSE conv'[i - 1].role
                         \/ conv'[i].exchange \in swapped
                         \/ i > 1 /\ conv'[i - 1].exchange \in swapped
                      /\ Empty(conv'[i]) =>
                           \/ conv'[i].exchange = 0 /\ i > 1
                           \/ /\ conv'[i].exchange # 0 /\ conv'[i].role = "assistant"
                              /\ ~answers[conv'[i].exchange]
                      /\ conv'[i].results = IF i = 1 THEN {} ELSE conv'[i - 1].uses
    BY DEF TurnsFit, Moved, Empty
  <2>1. CASE i \in 1..m
    <3>1. conv'[i] = conv[i] /\ (i # 1 => conv'[i - 1] = conv[i - 1])
      BY <1>1, <1>2, <2>1
    <3>2. i \in DOMAIN conv /\ TurnsFit
      BY <1>2, <2>1 DEF ConversationsAreValid
    <3>3. /\ \/ conv[i].role # IF i = 1 THEN "assistant" ELSE conv[i - 1].role
             \/ conv[i].exchange \in swapped
             \/ i > 1 /\ conv[i - 1].exchange \in swapped
          /\ Empty(conv[i]) =>
               \/ conv[i].exchange = 0 /\ i > 1
               \/ conv[i].exchange # 0 /\ conv[i].role = "assistant" /\ ~answers[conv[i].exchange]
          /\ conv[i].results = IF i = 1 THEN {} ELSE conv[i - 1].uses
      BY <3>2 DEF TurnsFit, Moved
    <3>4. CASE i = 1
      BY <3>1, <3>3, <3>4
    <3>5. CASE i # 1
      BY <3>1, <3>3, <3>5
    <3>6. QED
      BY <3>4, <3>5
  <2>2. CASE i = m + 1
    <3>1. i # 1 /\ i > 1 /\ i - 1 = m /\ conv'[i] = a /\ conv'[i - 1] = conv[m]
      BY <1>1, <1>2, <2>2
    <3>2. conv[m].role = "user" /\ conv[m].uses = {}
      BY DEF m
    <3>3. QED
      BY <1>3, <3>1, <3>2
  <2>3. CASE i = m + 2
    <3>1. i # 1 /\ i > 1 /\ i - 1 = m + 1 /\ conv'[i] = u /\ conv'[i - 1] = a
      BY <1>1, <1>2, <2>3
    <3>2. QED
      BY <1>3, <3>1
  <2>4. QED
    BY <1>1, <1>2, <2>1, <2>2, <2>3
<1>5. WindowIsWhole'
  <2> SUFFICES ASSUME NEW i \in DOMAIN conv', conv'[i].exchange # 0,
                      NEW k \in conv'[i].exchange..Len(answers),
                      ~(k = conv'[i].exchange /\ conv'[i].exchange \in swapped)
               PROVE  Kept(k)' = {"user", "assistant"}
    BY DEF WindowIsWhole, Moved
  <2>1. i \in 1..m /\ i \in DOMAIN conv /\ conv'[i] = conv[i]
    <3>1. i # m + 1 /\ i # m + 2
      BY <1>2, <1>3
    <3>2. QED
      BY <1>1, <1>2, <3>1
  <2>2. Kept(k) = {"user", "assistant"}
    BY <2>1 DEF ConversationsAreValid, WindowIsWhole, Moved
  <2>3. Kept(k)' = {conv'[j].role : j \in {q \in DOMAIN conv' : conv'[q].exchange = k}}
    BY DEF Kept
  <2>4. Kept(k) \subseteq Kept(k)'
    <3> SUFFICES ASSUME NEW j \in DOMAIN conv, conv[j].exchange = k
                 PROVE  conv[j].role \in Kept(k)'
      BY DEF Kept
    <3>1. j \in DOMAIN conv' /\ conv'[j] = conv[j]
      BY <1>1, <1>2
    <3>2. QED
      BY <2>3, <3>1
  <2>5. Kept(k)' \subseteq {"user", "assistant"}
    <3>1. ASSUME NEW j \in DOMAIN conv'
          PROVE  conv'[j].role \in {"user", "assistant"}
      <4>1. conv' \in Seq(Turn) /\ j \in 1..Len(conv')
        BY <1>2
      <4>3. conv'[j] \in Turn
        BY <4>1, ElementOfSeq
      <4>4. QED
        BY <4>3 DEF Turn
    <3>2. QED
      BY <2>3, <3>1
  <2>6. QED
    BY <2>2, <2>4, <2>5
<1>6. QED
  BY <1>1, <1>2, <1>3, <1>4, <1>5 DEF ConversationsAreValid

\* The map by which tools are offered asks for what the services ask for.
LEMMA GateMaps == \A t \in Tools : Required[t] = Offering[t]
  BY DEF Tools, Required, Offering

\* What is attributed to one result.
LEMMA ExtractType ==
    ASSUME NEW call \in Result, call.tool \in Tools
    PROVE  /\ Extract(call) \subseteq [table : {"customers", "events", "metrics", "records"},
                                       record : 0..MaxRecords + 1]
           /\ call.tool \in ListTools =>
                Extract(call) = {[table |-> Table[call.tool], record |-> n] : n \in 1..call.records}
<1>1. call.records \in 0..(MaxRecords + 1) /\ MaxRecords \in Nat
  BY AgentAssumption DEF Result
<1>2. Listed(call) \subseteq 1..(MaxRecords + 1)
  BY <1>1 DEF Listed
<1>3. CASE call.tool \in {"lookup_customer", "list_customers"}
  <2>1. /\ Keys[call.tool] = {"customers"} /\ Table[call.tool] = "customers"
        /\ Listed(call) = 1..call.records
    BY <1>3 DEF Keys, Table, Listed, Singles, Tools, Offering
  <2>2. Extract(call) = {[table |-> "customers", record |-> i] : i \in Listed(call)}
    BY <2>1 DEF Extract
  <2>3. QED
    BY <1>1, <1>2, <2>1, <2>2
<1>4. CASE call.tool = "query_events"
  <2>1. /\ Keys[call.tool] = {"events"} /\ Table[call.tool] = "events"
        /\ Listed(call) = 1..call.records
    BY <1>4 DEF Keys, Table, Listed, Singles, Tools, Offering
  <2>2. Extract(call) = {[table |-> "events", record |-> i] : i \in Listed(call)}
    BY <2>1 DEF Extract
  <2>3. QED
    BY <1>1, <1>2, <2>1, <2>2
<1>5. CASE call.tool \in {"get_metric", "get_metrics_catalog"}
  <2>1. /\ Keys[call.tool] = {"metrics"} /\ Table[call.tool] = "metrics"
        /\ Listed(call) = 1..call.records
    BY <1>5 DEF Keys, Table, Listed, Singles, Tools, Offering
  <2>2. Extract(call) = {[table |-> "metrics",
                          record |-> IF call.tool = "get_metric" THEN 0 ELSE i] : i \in Listed(call)}
    BY <2>1 DEF Extract
  <2>3. QED
    BY <1>1, <1>2, <1>5, <2>1, <2>2 DEF ListTools
<1>6. CASE call.tool = "get_customer_detail"
  <2>1. Keys[call.tool] = {"id", "metrics"} /\ Listed(call) = {}
    BY <1>6 DEF Keys, Listed, Singles, Tools, Offering
  <2>2. Extract(call) = {}
    BY <2>1, <1>6 DEF Extract
  <2>3. QED
    BY <1>6, <2>2 DEF ListTools
<1>7. CASE call.tool \in {"get_sources_list", "get_source_status"}
  <2>1. Keys[call.tool] \in {{"sources"}, {"id"}}
    BY <1>7 DEF Keys, Tools, Offering
  <2>2. Extract(call) \subseteq {[table |-> "records", record |-> 1]}
    BY <2>1 DEF Extract
  <2>3. QED
    BY <1>1, <1>7, <2>2 DEF ListTools
<1>8. QED
  BY <1>3, <1>4, <1>5, <1>6, <1>7 DEF Tools, Offering

-----------------------------------------------------------------------------
(* The steps *)

\* No message has come yet.
LEMMA InitAgentInv == Init => AgentInv
<1> SUFFICES ASSUME Init
             PROVE  AgentInv
  OBVIOUS
<1>1. TypeOK
  <2>1. round \in 0..DataRounds /\ search.round \in 0..ToolRounds /\ search.tools \in 0..MaxBlocks
    BY AgentAssumption DEF Init, NoSearch
  <2>2. blocks \in 0..MaxBlocks
    BY AgentAssumption DEF Init
  <2>3. calls \in Seq(Result) /\ conv \in Seq(Turn) /\ answers \in Seq(BOOLEAN)
    BY DEF Init
  <2>4. QED
    BY <2>1, <2>2, <2>3 DEF Init, TypeOK
<1>2. SearchInv
  BY AgentAssumption DEF Init, SearchInv, NoSearch
<1>3. EndInv
  BY DEF Init, EndInv
<1>4. ConversationsAreValid /\ GatesAgree /\ ListsAreAttributed
  BY DEF Init, ConversationsAreValid, TurnsFit, WindowIsWhole, GatesAgree, ListsAreAttributed
<1>5. QED
  BY <1>1, <1>2, <1>3, <1>4 DEF AgentInv

\* The conversation stays: so do its faults, and what is known of its end.
LEMMA ConversationStays ==
    ASSUME AgentInv, UNCHANGED <<answers, swapped, conv>>,
           pc' = "idle" => pc = "idle" /\ UNCHANGED calls, pc = "idle" => pc' = "idle"
    PROVE  ConversationsAreValid' /\ EndInv'
<1>1. TurnsFit'
  BY DEF AgentInv, ConversationsAreValid, TurnsFit, Moved, Empty
<1>2. \A k : Kept(k)' = Kept(k)
  BY DEF Kept
<1>3. WindowIsWhole'
  <2> SUFFICES ASSUME NEW i \in DOMAIN conv, NEW k \in conv[i].exchange..Len(answers)
               PROVE  \/ conv[i].exchange = 0
                      \/ Kept(k)' = {"user", "assistant"}
                      \/ k = conv[i].exchange /\ conv[i].exchange \in swapped
    BY DEF WindowIsWhole, Moved
  <2>1. QED
    BY <1>2 DEF AgentInv, ConversationsAreValid, WindowIsWhole, Moved
<1>4. EndInv'
  BY DEF AgentInv, EndInv
<1>5. QED
  BY <1>1, <1>3, <1>4 DEF ConversationsAreValid

\* What is kept of a tool that ran.
LEMMA ReturnKeeps ==
    ASSUME AgentInv, NEW t \in Tools \union {"unknown"}, NEW error \in {"none", "refused", "FORBIDDEN", "INTERNAL_ERROR"},
           NEW records \in 0..(MaxRecords + 1),
           error = "FORBIDDEN" => t \notin Offered,
           error = "none" => t \in Offered,
           Return(t, error, records), aborted' \in BOOLEAN
    PROVE  AgentInv'
<1> DEFINE call == [tool |-> t, records |-> records, error |-> error]
<1>1. /\ call \in Result /\ calls \in Seq(Result) /\ Len(calls) \in Nat
      /\ call.tool = t /\ call.error = error /\ call.records = records
  BY DEF Result, AgentInv, TypeOK
<1>2. /\ calls' = Append(calls, call) /\ sources' = Attribute(call)
      /\ search.tools > 0 /\ search' = [search EXCEPT !.tools = @ - 1]
      /\ UNCHANGED <<answers, permitted, swapped, conv, pc, round, blocks, uses, answer>> /\ pc = "executing"
  BY DEF Return, session
<1>3. /\ calls' \in Seq(Result) /\ Len(calls') = Len(calls) + 1
      /\ \A i \in 1..Len(calls) : calls'[i] = calls[i]
      /\ calls'[Len(calls) + 1] = call
      /\ DOMAIN calls' = 1..(Len(calls) + 1) /\ DOMAIN calls = 1..Len(calls)
  BY <1>1, <1>2
<1>4. /\ error = "none" => t \in Tools
      /\ UNCHANGED Offered
  BY <1>2 DEF Offered
<1> DEFINE Types == {"customers", "events", "metrics", "records"}
           new == {[call |-> Len(calls) + 1, table |-> s.table, record |-> s.record] :
                      s \in IF error = "none" THEN Extract(call) ELSE {}}
<1>5. sources' = sources \union new
  BY <1>1, <1>2 DEF Attribute
<1>6. sources \subseteq [call : 1..Len(calls), table : Types, record : 0..MaxRecords + 1]
  BY DEF AgentInv, TypeOK
<1>7. new \subseteq [call : {Len(calls) + 1}, table : Types, record : 0..MaxRecords + 1]
  <2>1. error = "none" => Extract(call) \subseteq [table : Types, record : 0..MaxRecords + 1]
    BY <1>1, <1>4, ExtractType
  <2>2. QED
    BY <2>1
<1>8. error = "none" /\ t \in ListTools =>
        new = {[call |-> Len(calls) + 1, table |-> Table[t], record |-> n] : n \in 1..records}
  <2> SUFFICES ASSUME error = "none", t \in ListTools
               PROVE  new = {[call |-> Len(calls) + 1, table |-> Table[t], record |-> n] : n \in 1..records}
    OBVIOUS
  <2>1. Extract(call) = {[table |-> Table[t], record |-> n] : n \in 1..records}
    BY <1>1, <1>4, ExtractType
  <2> DEFINE named == {[table |-> Table[t], record |-> n] : n \in 1..records}
             wanted == {[call |-> Len(calls) + 1, table |-> Table[t], record |-> n] : n \in 1..records}
  <2>2. new = {[call |-> Len(calls) + 1, table |-> s.table, record |-> s.record] : s \in named}
    BY <2>1
  <2> HIDE DEF new
  <2>3. \A x \in wanted : x \in new
    <3>1. ASSUME NEW n \in 1..records
          PROVE  [call |-> Len(calls) + 1, table |-> Table[t], record |-> n] \in new
      <4>1. [table |-> Table[t], record |-> n] \in named
        OBVIOUS
      <4>2. QED
        BY <2>2, <4>1
    <3>2. QED
      BY <3>1
  <2>4. \A x \in new : x \in wanted
    BY <2>2
  <2>5. QED
    BY <2>3, <2>4
<1>9. error # "none" => new = {}
  OBVIOUS
<1> HIDE DEF call, new
<1>10. search' \in [round : 0..ToolRounds, tools : 0..MaxBlocks]
  <2>1. search \in [round : 0..ToolRounds, tools : 0..MaxBlocks]
    BY DEF AgentInv, SearchInv
  <2>2. search.tools - 1 \in 0..MaxBlocks
    BY <1>2, <2>1, AgentAssumption
  <2>3. QED
    BY <1>2, <2>1, <2>2
<1>11. sources' \subseteq [call : 1..Len(calls'), table : Types, record : 0..MaxRecords + 1]
  <2>1. 1..Len(calls) \subseteq 1..(Len(calls) + 1) /\ {Len(calls) + 1} \subseteq 1..(Len(calls) + 1)
    BY <1>1
  <2>2. sources \subseteq [call : 1..(Len(calls) + 1), table : Types, record : 0..MaxRecords + 1]
    BY <1>6, <2>1
  <2>3. new \subseteq [call : 1..(Len(calls) + 1), table : Types, record : 0..MaxRecords + 1]
    BY <1>7, <2>1
  <2>4. QED
    BY <1>3, <1>5, <2>2, <2>3
<1>12. TypeOK'
  BY <1>2, <1>3, <1>10, <1>11 DEF AgentInv, TypeOK
<1>13. GatesAgree'
  <2>1. SUFFICES ASSUME NEW i \in 1..(Len(calls) + 1)
                 PROVE  /\ calls'[i].error = "FORBIDDEN" => calls'[i].tool \notin Offered
                        /\ calls'[i].error = "none" => calls'[i].tool \in Offered
    BY <1>3, <1>4 DEF GatesAgree
  <2>2. CASE i \in 1..Len(calls)
    BY <1>3, <2>2 DEF AgentInv, GatesAgree
  <2>3. CASE i = Len(calls) + 1
    BY <1>1, <1>3, <2>3
  <2>4. QED
    BY <1>1, <2>2, <2>3
<1>14. ListsAreAttributed'
  <2>1. SUFFICES ASSUME NEW i \in 1..(Len(calls) + 1)
                 PROVE  /\ calls'[i].error # "none" => {s \in sources' : s.call = i} = {}
                        /\ (calls'[i].error = "none" /\ calls'[i].tool \in ListTools) =>
                             {s \in sources' : s.call = i} =
                               {[call |-> i, table |-> Table[calls'[i].tool], record |-> n] :
                                  n \in 1..calls'[i].records}
    BY <1>3 DEF ListsAreAttributed
  <2>2. CASE i \in 1..Len(calls)
    <3>1. \A s \in new : s.call # i
      BY <1>1, <1>7, <2>2
    <3>2. {s \in sources' : s.call = i} = {s \in sources : s.call = i}
      BY <1>5, <3>1
    <3>3. QED
      BY <1>3, <2>2, <3>2 DEF AgentInv, ListsAreAttributed
  <2>3. CASE i = Len(calls) + 1
    <3>1. \A s \in sources : s.call # i
      BY <1>1, <1>6, <2>3
    <3>2. \A s \in new : s.call = i
      BY <1>7, <2>3
    <3>3. {s \in sources' : s.call = i} = new
      BY <1>5, <3>1, <3>2
    <3>4. calls'[i].error = error /\ calls'[i].tool = t /\ calls'[i].records = records
      BY <1>1, <1>3, <2>3
    <3>5. QED
      BY <1>8, <1>9, <2>3, <3>3, <3>4
  <2>4. QED
    BY <1>1, <2>2, <2>3
<1>15. SearchInv'
  BY <1>2, <1>10 DEF AgentInv, SearchInv
<1>16. ConversationsAreValid' /\ EndInv'
  BY <1>2, ConversationStays
<1>17. QED
  BY <1>12, <1>13, <1>14, <1>15, <1>16 DEF AgentInv

\* A data request is answered: its use is kept for the next turn.
LEMMA EndSearchKeeps ==
    ASSUME AgentInv, pc \in {"searching", "executing"}, EndSearch,
           UNCHANGED <<answers, permitted, swapped, conv, round, answer, calls, sources, aborted>>
    PROVE  AgentInv'
<1>1. blocks \in 1..MaxBlocks /\ uses \subseteq 1..MaxBlocks
  BY AgentAssumption DEF AgentInv, TypeOK, SearchInv
<1>2. /\ pc' = "handling" /\ blocks' \in 0..MaxBlocks /\ uses' \subseteq 1..MaxBlocks
      /\ search' = NoSearch
  BY <1>1, AgentAssumption DEF EndSearch
<1>3. NoSearch \in [round : 0..ToolRounds, tools : 0..MaxBlocks]
  BY AgentAssumption DEF NoSearch
<1>4. SearchInv'
  BY <1>2, <1>3 DEF SearchInv
<1>5. TypeOK'
  BY <1>2, <1>3 DEF AgentInv, TypeOK
<1>6. GatesAgree' /\ ListsAreAttributed' /\ ConversationsAreValid' /\ EndInv'
  BY <1>2, ConversationStays DEF AgentInv, GatesAgree, ListsAreAttributed, Offered
<1>7. QED
  BY <1>4, <1>5, <1>6 DEF AgentInv

\* Every step keeps the invariant.
LEMMA NextAgentInv == AgentInv /\ [Next]_vars => AgentInv'
<1> SUFFICES ASSUME AgentInv, [Next]_vars
             PROVE  AgentInv'
  OBVIOUS
<1> USE AgentAssumption
\* A step that runs no tool and appends no turn.
<1>1. ASSUME UNCHANGED <<answers, permitted, swapped, conv, calls, sources>>, TypeOK', SearchInv',
             pc' = "idle" => pc = "idle", pc = "idle" => pc' = "idle"
      PROVE  AgentInv'
  <2>1. ConversationsAreValid' /\ EndInv'
    BY <1>1, ConversationStays
  <2>2. QED
    BY <1>1, <2>1 DEF AgentInv, GatesAgree, ListsAreAttributed, Offered
<1>2. TypeOK /\ SearchInv
  BY DEF AgentInv
\* The message has been dealt with.
<1>18. ASSUME Rest, UNCHANGED <<permitted, swapped>>, answers' \in Seq(BOOLEAN), Len(answers') >= Len(answers)
       PROVE  AgentInv'
  <2>1. search' = NoSearch /\ NoSearch \in [round : 0..ToolRounds, tools : 0..MaxBlocks]
    BY <1>18 DEF Rest, NoSearch
  <2>2. 0 \in 0..DataRounds /\ 0 \in 0..MaxBlocks
    OBVIOUS
  <2>3. swapped' \subseteq 1..Len(answers')
    <3>1. swapped \subseteq 1..Len(answers) /\ Len(answers) \in Nat /\ Len(answers') \in Nat
      BY <1>2, <1>18 DEF TypeOK
    <3>2. QED
      BY <1>18, <3>1
  <2>4. /\ conv' = <<>> /\ pc' = "idle" /\ calls' = <<>> /\ sources' = {}
        /\ conv' \in Seq(Turn) /\ calls' \in Seq(Result)
    BY <1>18 DEF Rest
  <2>5. /\ round' \in 0..DataRounds /\ blocks' \in 0..MaxBlocks /\ uses' = {} /\ answer' = FALSE
        /\ aborted' = FALSE
    BY <1>18, <2>2 DEF Rest
  <2>6. TypeOK'
    BY <1>2, <1>18, <2>1, <2>3, <2>4, <2>5 DEF TypeOK
  <2>7. SearchInv' /\ EndInv'
    BY <2>1, <2>4 DEF SearchInv, EndInv
  <2>8. ConversationsAreValid' /\ GatesAgree' /\ ListsAreAttributed'
    BY <2>4 DEF ConversationsAreValid, TurnsFit, WindowIsWhole, GatesAgree, ListsAreAttributed
  <2>9. QED
    BY <2>6, <2>7, <2>8 DEF AgentInv
<1>19. CASE Ask
  <2>1. /\ answers \in Seq(BOOLEAN) /\ swapped' \in SUBSET (1..Len(answers)) /\ permitted' \in Callers
        /\ conv' = Truncate(Append(History(swapped'), Message))
        /\ pc = "idle" /\ pc' = "asking"
        /\ UNCHANGED <<answers, round, blocks, uses, answer, search, calls, sources, aborted>>
    BY <1>2, <1>19 DEF Ask, TypeOK
  <2>2. ConversationsAreValid' /\ conv' \in Seq(Turn) /\ conv' # <<>> /\ conv'[Len(conv')] = Message
    BY <2>1, AskedIsValid
  <2>3. calls = <<>> /\ calls' = <<>>
    BY <2>1 DEF AgentInv, EndInv
  <2>4. EndInv'
    BY <2>1, <2>2 DEF EndInv, Message
  <2>5. TypeOK' /\ SearchInv'
    BY <1>2, <2>1, <2>2 DEF TypeOK, SearchInv
  <2>6. GatesAgree' /\ ListsAreAttributed'
    BY <2>3 DEF GatesAgree, ListsAreAttributed
  <2>7. QED
    BY <2>2, <2>4, <2>5, <2>6 DEF AgentInv
<1>3. CASE Respond
  <2>1. /\ blocks' \in 0..MaxBlocks /\ round' \in 0..DataRounds /\ pc' \in {"storing", "handling"}
        /\ answer' \in BOOLEAN
    BY <1>2, <1>3 DEF Respond, TypeOK
  <2>2. TypeOK' /\ SearchInv'
    BY <1>2, <1>3, <2>1 DEF Respond, TypeOK, SearchInv, session
  <2>3. QED
    BY <1>1, <1>3, <2>1, <2>2 DEF Respond, session
<1>4. CASE GiveUp
  BY <1>1, <1>2, <1>4 DEF GiveUp, TypeOK, SearchInv, session
<1>5. CASE SkipUnexpected
  <2>1. blocks' \in 0..MaxBlocks
    BY <1>2, <1>5 DEF SkipUnexpected, TypeOK
  <2>2. TypeOK' /\ SearchInv'
    BY <1>2, <1>5, <2>1 DEF SkipUnexpected, TypeOK, SearchInv, session
  <2>3. QED
    BY <1>1, <1>5, <2>2 DEF SkipUnexpected, session
<1>6. CASE Delegate
  BY <1>1, <1>2, <1>6 DEF Delegate, TypeOK, SearchInv, session
<1>7. CASE FinishRound
  <2>1. /\ answer' \in BOOLEAN /\ pc = "handling" /\ pc' \in {"asking", "storing"} /\ uses' = {}
        /\ conv' = conv \o <<[role |-> "assistant", text |-> answer', uses |-> uses, results |-> {}, exchange |-> 0],
                             [role |-> "user", text |-> FALSE, uses |-> {}, results |-> uses, exchange |-> 0]>>
        /\ UNCHANGED <<answers, permitted, swapped, round, blocks, search, calls, sources, aborted>>
    BY <1>7 DEF FinishRound, session
  <2>2. uses \in SUBSET Nat /\ conv \in Seq(Turn)
    BY <1>2 DEF TypeOK
  <2>3. /\ ConversationsAreValid /\ conv # <<>>
        /\ conv[Len(conv)].role = "user" /\ conv[Len(conv)].uses = {}
    BY <2>1 DEF AgentInv, EndInv
  <2>4. /\ ConversationsAreValid'
        /\ conv' \in Seq(Turn) /\ conv' # <<>>
        /\ conv'[Len(conv')].role = "user" /\ conv'[Len(conv')].uses = {}
    BY <2>1, <2>2, <2>3, RoundIsValid
  <2>5. EndInv'
    BY <2>1, <2>4 DEF EndInv
  <2>6. TypeOK' /\ SearchInv'
    BY <1>2, <2>1, <2>4 DEF TypeOK, SearchInv
  <2>7. GatesAgree' /\ ListsAreAttributed'
    BY <2>1 DEF AgentInv, GatesAgree, ListsAreAttributed, Offered
  <2>8. QED
    BY <2>4, <2>5, <2>6, <2>7 DEF AgentInv
<1>8. CASE ChooseTools
  <2>1. CASE EndSearch
    BY <1>8, <2>1, EndSearchKeeps DEF ChooseTools, session
  <2>2. ASSUME NEW n \in 1..MaxBlocks, pc' = "executing",
               search' = [round |-> search.round + 1, tools |-> n], UNCHANGED <<blocks, uses>>
        PROVE  AgentInv'
    <3>1. search'.round \in 0..ToolRounds /\ search'.tools \in 0..MaxBlocks
          /\ search' \in [round : 0..ToolRounds, tools : 0..MaxBlocks]
      BY <1>2, <1>8, <2>2 DEF ChooseTools, TypeOK
    <3>2. pc = "searching" /\ UNCHANGED <<answers, permitted, swapped, conv, round, answer, calls, sources, aborted>>
      BY <1>8 DEF ChooseTools, session
    <3>3. TypeOK' /\ SearchInv'
      BY <1>2, <2>2, <3>1, <3>2 DEF TypeOK, SearchInv
    <3>4. QED
      BY <1>1, <2>2, <3>2, <3>3
  <2>3. QED
    BY <1>8, <2>1, <2>2 DEF ChooseTools
<1>9. CASE RefuseTool
  <2>1. PICK t \in Singles \union {"query_events", "get_metric", "unknown"} : Return(t, "refused", 0)
    BY <1>9 DEF RefuseTool
  <2>2. t \in Tools \union {"unknown"} /\ aborted' \in BOOLEAN
    BY <1>2, <1>9 DEF RefuseTool, TypeOK, Singles, Tools, Offering
  <2>3. QED
    BY <2>1, <2>2, ReturnKeeps
<1>10. CASE ForbidTool
  <2>1. PICK t \in Tools : ~Allowed(t) /\ Return(t, "FORBIDDEN", 0)
    BY <1>10 DEF ForbidTool
  <2>2. t \notin Offered /\ aborted' \in BOOLEAN
    BY <1>2, <1>10, <2>1, GateMaps DEF ForbidTool, TypeOK, Allowed, Offered
  <2>3. QED
    BY <2>1, <2>2, ReturnKeeps
<1>11. CASE ReturnRecords
  <2>1. PICK t \in Tools, n \in Nat :
          Allowed(t) /\ n \in 0..(MaxRecords + 1) /\ Return(t, "none", n)
    BY <1>11 DEF ReturnRecords
  <2>2. t \in Offered /\ aborted' \in BOOLEAN
    BY <1>2, <1>11, <2>1, GateMaps DEF ReturnRecords, TypeOK, Allowed, Offered
  <2>3. QED
    BY <2>1, <2>2, ReturnKeeps
<1>12. CASE BreakTool
  <2>1. PICK t \in Tools, failed \in BOOLEAN :
          Return(t, "INTERNAL_ERROR", 0) /\ aborted' = (aborted \/ failed)
    BY <1>12 DEF BreakTool
  <2>2. aborted' \in BOOLEAN
    BY <1>2, <2>1 DEF TypeOK
  <2>3. QED
    BY <2>1, <2>2, ReturnKeeps
<1>13. CASE FinishTools
  <2>1. CASE EndSearch
    BY <1>13, <2>1, EndSearchKeeps DEF FinishTools, session
  <2>2. CASE pc' = "searching" /\ UNCHANGED <<blocks, uses, search>>
    BY <1>1, <1>2, <1>13, <2>2 DEF FinishTools, TypeOK, SearchInv, session
  <2>3. QED
    BY <1>13, <2>1, <2>2 DEF FinishTools
<1>14. CASE FailModel
  <2>1. Rest /\ UNCHANGED <<answers, permitted, swapped>>
    BY <1>14 DEF FailModel, session
  <2>2. answers \in Seq(BOOLEAN)
    BY <1>2 DEF TypeOK
  <2>3. QED
    BY <1>18, <2>1, <2>2
<1>15. CASE Store
  <2>1. answers \in Seq(BOOLEAN) /\ answer \in BOOLEAN
    BY <1>2 DEF TypeOK
  <2>2. /\ Rest /\ UNCHANGED <<permitted, swapped>>
        /\ answers' = answers \/ answers' = Append(answers, answer)
    BY <1>15 DEF Store
  <2>3. answers' \in Seq(BOOLEAN) /\ Len(answers') >= Len(answers)
    BY <2>1, <2>2
  <2>4. QED
    BY <1>18, <2>2, <2>3
<1>16. CASE UNCHANGED vars
  BY <1>1, <1>2, <1>16 DEF vars, TypeOK, SearchInv
<1>17. QED
  BY <1>3, <1>4, <1>5, <1>6, <1>7, <1>8, <1>9, <1>10, <1>11, <1>12, <1>13, <1>14, <1>15, <1>16, <1>19 DEF Next

\* Every state the agent reaches satisfies the invariant.
LEMMA AgentInvariant == Spec => []AgentInv
<1>1. Init => AgentInv
  BY InitAgentInv
<1>2. AgentInv /\ [Next]_vars => AgentInv'
  BY NextAgentInv
<1>3. QED
  BY <1>1, <1>2, PTL DEF Spec

-----------------------------------------------------------------------------

\* Every variable keeps its type.
THEOREM AgentTypes == Spec => []TypeOK
<1>1. AgentInv => TypeOK
  BY DEF AgentInv
<1>2. QED
  BY <1>1, AgentInvariant, PTL

\* For any history of a session, any even window and any number of rounds: what is
\* wrong with a conversation was wrong in what is stored, or is a turn in which the
\* model said nothing.
THEOREM ValidConversations == Spec => []ConversationsAreValid
<1>1. AgentInv => ConversationsAreValid
  BY DEF AgentInv
<1>2. QED
  BY <1>1, AgentInvariant, PTL

\* Both gates let through the same tools, whatever the caller may do.
THEOREM AgreeingGates == Spec => []GatesAgree
<1>1. AgentInv => GatesAgree
  BY DEF AgentInv
<1>2. QED
  BY <1>1, AgentInvariant, PTL

\* Lists are attributed record by record, however many tools run.
THEOREM AttributedLists == Spec => []ListsAreAttributed
<1>1. AgentInv => ListsAreAttributed
  BY DEF AgentInv
<1>2. QED
  BY <1>1, AgentInvariant, PTL
===============================================================================
